---- MODULE Spec2Model ----
(***************************************************************************)
(* Model of the transfer orchestrator (libqltfs/io/TapeIO.cpp) driving the *)
(* tape device controller (libqltfs/device/TapeDevice.cpp) against a       *)
(* simulated sequential drive.                                             *)
(*                                                                         *)
(* Threads: "w" is the thread that calls startWrite() or readFiles(),      *)
(* which run synchronously on it; "c" is the control thread that calls     *)
(* pause(), resume() and cancel().  resume() itself calls processQueue(),  *)
(* so the control thread becomes a second executor of the loop.  The code  *)
(* takes no lock around the flags, the queue items or the device.  A step  *)
(* of the model is one access to the shared state together with the        *)
(* thread-local work around it; a device command is two steps, issue and   *)
(* return.                                                                 *)
(*                                                                         *)
(* The block manager (libqltfs/io/BlockManager.cpp) and the index codec    *)
(* (libqltfs/xml/IndexWriter.cpp, IndexParser.cpp) are modelled beside it, *)
(* and so are the sense data parser and the command block builders of the  *)
(* command layer (libqltfs/device/ScsiCommand.cpp) with the two ways a     *)
(* command block goes to the driver.                                       *)
(*                                                                         *)
(* The specifications share the variables and the actions:                 *)
(*   Spec       the write run under the whole control API (pause, resume,  *)
(*              cancel) with a drive that does not fail;                   *)
(*   SpecFaults the write run on one executor (pause and cancel, never     *)
(*              resume) with a drive and a file system that may fail;      *)
(*   SpecRead   readFiles() from a written cartridge, with cancel and      *)
(*              failures;                                                  *)
(*   SpecStart  startWrite() called from either thread, also during a run; *)
(*   SpecDev    the operations of the device controller called directly,   *)
(*              command by command, on a drive whose commands may fail,    *)
(*              with open, a failing open and close;                       *)
(*   SpecExtent the block manager called by one thread;                    *)
(*   SpecExtent2 its extent functions called by two threads;               *)
(*   SpecCodec  an index written by IndexWriter and parsed by IndexParser; *)
(*   SpecSense  ScsiSenseData::fromRawData applied to a response;          *)
(*   SpecCdb    a command block built and executed;                         *)
(*   SpecLive   the write run of Spec for a queue of directories and at    *)
(*              most one file, with the fairness of scheduling.            *)
(***************************************************************************)
EXTENDS Integers, Sequences, FiniteSets, TLC

\* ------------------------------------------------------------------ bounds
MaxQueue == 2
MaxFaults == 1
MaxRuns == 1
MaxPauses == 1
BlockSize == 2
\* device-level calls: calls per run, injected failures per run, highest
\* block address asked of locate
MaxCalls == 2
MaxDevFaults == 2
MaxBlock == 2
\* BlockManager: calls made
MaxBmCalls == 4

\* sizes of the source files: two chunks, the second one short
FileSizes == {BlockSize + 1}

Threads == {"w", "c"}

\* --------------------------------------------------------------- constants
SK_NoSense == 0
SK_NotReady == 2
SK_MediumError == 3
SK_IllegalRequest == 5
SK_UnitAttention == 6
SK_DataProtect == 7
SK_BlankCheck == 8

IndexPartition == 0
DataPartition == 1
Filemark == 0

\* the ANSI label block, the read size of the LTFS label block
AnsiLabelLen == 80
LtfsReadLen == 16384
\* sizes of the serialized LTFS label and of the initial index document
LtfsLabelLen == 300
IndexLen == 700

NoSenseData == [senseKey |-> SK_NoSense, asc |-> 0, ascq |-> 0]
MediumErrorSense == [senseKey |-> SK_MediumError, asc |-> 17, ascq |-> 0]
NoMediaSense == [senseKey |-> SK_NotReady, asc |-> 58, ascq |-> 0]
UnitAttentionSense == [senseKey |-> SK_UnitAttention, asc |-> 40, ascq |-> 0]
BlankCheckSense == [senseKey |-> SK_BlankCheck, asc |-> 0, ascq |-> 5]
\* CHECK CONDITION with the ILI or FILEMARK bit: the sense key is NoSense
IncorrectLengthSense == [senseKey |-> SK_NoSense, asc |-> 0, ascq |-> 0]
FilemarkSense == [senseKey |-> SK_NoSense, asc |-> 0, ascq |-> 1]
IllegalRequestSense == [senseKey |-> SK_IllegalRequest, asc |-> 36, ascq |-> 0]
DataProtectSense == [senseKey |-> SK_DataProtect, asc |-> 39, ascq |-> 0]

TurOk == [ok |-> TRUE, sense |-> NoSenseData]
TurFail(s) == [ok |-> FALSE, sense |-> s]

\* what the drive answers to TEST UNIT READY after a failed command
RunTurOutcomes == {TurOk, TurFail(NoMediaSense), TurFail(UnitAttentionSense)}

NoCmd == [op |-> "none", a |-> 0, b |-> 0]
Cmd(o, x, y) == [op |-> o, a |-> x, b |-> y]

Min(x, y) == IF x < y THEN x ELSE y

RECURSIVE SumSeq(_)
SumSeq(s) == IF s = <<>> THEN 0 ELSE Head(s) + SumSeq(Tail(s))

VARIABLES
    io,     \* TapeIO::Private
    th,     \* per thread: place in the running operation and its locals
    dev,    \* TapeDevice::Private
    drv,    \* the simulated drive: medium, physical position, commands
    rd,     \* the read operation: files asked for, destination files, signals
    obs,    \* observation of the run (never read by the program)
    bm,     \* BlockManager: block size, position, extents, callers
    xml,    \* the index codec at work: index, document, decoded index
    scsi    \* ScsiCommand at work: sense bytes parsed, CDB built and sent

vars == <<io, th, dev, drv, rd, obs, bm, xml, scsi>>

\* ------------------------------------------------------------ data model
\* TransferItem; name stands for sourcePath/fileName.  A hash string is a
\* tuple: <<>> is the empty string, <<n>> the digest n.
NewItem(nm, sz, dir) ==
    [name |-> nm, size |-> sz, isDirectory |-> dir, status |-> "Pending",
     bytesTransferred |-> 0, errorMessage |-> "", sourceHash |-> <<>>,
     destHash |-> <<>>, hashVerified |-> FALSE]

NewStats ==
    [totalFiles |-> 0, totalBytes |-> 0, completedFiles |-> 0,
     completedBytes |-> 0, failedFiles |-> 0]

DefaultOptions == [verifyAfterWrite |-> TRUE, continueOnError |-> TRUE,
                   blockSize |-> BlockSize]

InitialPosition == [partition |-> 0, blockNumber |-> 0, fileNumber |-> 0,
                    endOfPartition |-> FALSE]

NewThread == [pc |-> "idle", i |-> 0, fpos |-> 0, totalWritten |-> 0,
              startPos |-> InitialPosition, err |-> "",
              op |-> "none", steps |-> <<>>, ret |-> 0]

\* HashCalculator::hashFile on a file holding the bytes `content`
HashOf(content) == <<SumSeq(content)>>

\* the content of the source file of a queue item: its chunks
RECURSIVE Chunks(_, _)
Chunks(sz, bs) ==
    IF sz <= 0 THEN <<>> ELSE <<Min(sz, bs)>> \o Chunks(sz - Min(sz, bs), bs)

RECURSIVE calculateQueueSize(_)
calculateQueueSize(q) ==
    IF q = <<>> THEN 0 ELSE Head(q).size + calculateQueueSize(Tail(q))

resetStats(q) ==
    [NewStats EXCEPT !.totalFiles = Len(q),
                     !.totalBytes = calculateQueueSize(q)]

NewRead == [files |-> <<>>, j |-> 0, item |-> NewItem(0, 0, FALSE),
            totalRead |-> 0, allSuccess |-> TRUE, dest |-> <<>>,
            stop |-> FALSE, reported |-> <<>>,
            returned |-> <<>>, cancelledBefore |-> FALSE]

\* TapeDevice::Private after construction
ClosedDevice ==
    [open |-> FALSE, status |-> "Unknown", position |-> InitialPosition,
     lastError |-> "", lastSenseData |-> NoSenseData]

\* the record of one call into the device controller: the operation and its
\* arguments, the value returned (a bool as 1 or 0), the commands issued
\* with the controller status at issue and the outcome, the mediaChanged and
\* errorOccurred events emitted, the values of the statusChanged events
\* emitted (sig), the controller state before the call, and whether the
\* medium was blank then; cause: the sense data that came back from the
\* last command of the call, the status polls apart
NoCall ==
    [op |-> "none", a |-> 0, b |-> 0, ret |-> 0, log |-> <<>>,
     media |-> 0, errs |-> 0, sig |-> <<>>, cause |-> NoSenseData,
     pre |-> ClosedDevice, blank |-> FALSE]

InitObs ==
    [startLog |-> <<>>, phase |-> <<>>, sent |-> <<>>, fmSent |-> <<>>,
     wrote |-> <<>>, fmOk |-> <<>>,
     recStart |-> <<>>, firstBlk |-> <<>>, cancelDuring |-> <<>>,
     failed |-> FALSE, lateStart |-> FALSE, startedNonPending |-> FALSE,
     sigWrites |-> -1, cmdWhilePaused |-> FALSE,
     faults |-> 0, runs |-> 0, pauses |-> 0,
     calls |-> 0, call |-> NoCall]

InitProgram ==
    /\ io = [queue |-> <<>>, running |-> FALSE, paused |-> FALSE,
             cancelled |-> FALSE, stats |-> NewStats, lastError |-> "",
             currentItemIndex |-> -1, options |-> DefaultOptions,
             index |-> [attached |-> FALSE, files |-> <<>>]]
    /\ th = [t \in Threads |-> NewThread]
    /\ dev = ClosedDevice
    /\ rd = NewRead
    /\ obs = InitObs

NewDrive(cartridge) ==
    [part |-> 0, block |-> 0, tape |-> cartridge, armed |-> FALSE,
     loaded |-> TRUE, inflight |-> [t \in Threads |-> NoCmd]]

\* ------------------------------------------------------------ BlockManager
\* The tracker of block size, position and extents (libqltfs/io/
\* BlockManager.cpp).  Every function that takes m_mutex for its whole body
\* is one step; beginExtent gives the mutex up around its call of
\* endExtent() and is three steps when an extent is active: the test
\* (bm.pc "unlocked" after it), endExtent(), and, the mutex taken again
\* ("relock"), the new extent.  bm.last keeps the last call with the tracker
\* as it was when the call was made; bm.begunOpen and bm.offered follow the
\* callers: a beginExtent has returned and no endExtent or clearExtents was
\* called since, and the blocks handed to addToExtent while that was so.

MIN_BLOCK_SIZE == 4096
MAX_BLOCK_SIZE == 4194304
DEFAULT_BLOCK_SIZE == 524288

\* the sizes given to the constructor and to setBlockSize (uint32_t)
SizesTried ==
    {0, 1, 2048, 4095, 4096, 4097, 6144, 8192, 12288, 524288, 4194304,
     4194305, 4198400, 8388608, 2147483647}

\* x & y
RECURSIVE BitAnd(_, _)
BitAnd(x, y) ==
    IF x = 0 \/ y = 0 THEN 0
    ELSE (x % 2) * (y % 2) + 2 * BitAnd(x \div 2, y \div 2)

\* a variant of isValidBlockSize without the upper limit
isValidBlockSizeNoMax(size) ==
    IF size < MIN_BLOCK_SIZE THEN FALSE
    ELSE IF BitAnd(size, size - 1) = 0 THEN TRUE
    ELSE size % MIN_BLOCK_SIZE = 0

\* BlockManager::isValidBlockSize; size - 1 does not wrap, size being at
\* least MIN_BLOCK_SIZE there
isValidBlockSize(size) ==
    IF size < MIN_BLOCK_SIZE \/ size > MAX_BLOCK_SIZE THEN FALSE
    ELSE IF BitAnd(size, size - 1) = 0 THEN TRUE
    ELSE size % MIN_BLOCK_SIZE = 0

\* BlockAllocation()
BlockAllocation ==
    [startBlock |-> 0, blockCount |-> 0, partition |-> 0, fileOffset |-> 0,
     byteCount |-> 0]

\* the members of the tracker
Tracker(b) ==
    [blockSize |-> b.blockSize, currentPartition |-> b.currentPartition,
     currentBlock |-> b.currentBlock, extentActive |-> b.extentActive,
     currentExtent |-> b.currentExtent, extents |-> b.extents,
     totalBlocksWritten |-> b.totalBlocksWritten,
     totalBytesWritten |-> b.totalBytesWritten]

\* BlockManager::BlockManager(blockSize)
NewBlockManager(blockSize) ==
    LET members ==
            [blockSize |-> IF isValidBlockSize(blockSize) THEN blockSize
                           ELSE DEFAULT_BLOCK_SIZE,
             currentPartition |-> 0, currentBlock |-> 0,
             extentActive |-> FALSE, currentExtent |-> BlockAllocation,
             extents |-> <<>>,
             totalBlocksWritten |-> 0, totalBytesWritten |-> 0]
    IN  members @@
        [pc |-> [t \in Threads |-> "idle"], calls |-> 0,
         last |-> [op |-> "none", a |-> 0, ret |-> 0, t |-> "w",
                   pre |-> members],
         offered |-> 0, begunOpen |-> FALSE]

\* the index codec before any call
NoCodec == [stage |-> "none"]

\* ScsiCommand before any call
NoScsi == [stage |-> "none"]

\* the state after construction, a blank cartridge in the drive
Init ==
    /\ InitProgram
    /\ drv = NewDrive([p \in 0..1 |-> <<>>])
    /\ bm = NewBlockManager(DEFAULT_BLOCK_SIZE)
    /\ xml = NoCodec
    /\ scsi = NoScsi

\* ------------------------------------------------- TapeDevice: status map
\* a variant of the status map that takes a UnitAttention for Ready whatever
\* the second TEST UNIT READY says
RefreshStatusMapReady(r1, ok2) ==
    IF r1.ok \/ r1.sense.senseKey = SK_UnitAttention THEN "Ready"
    ELSE IF r1.sense.senseKey = SK_NotReady THEN "NotReady"
    ELSE "Error"

\* TapeDevice::refreshStatus: status chosen from the TEST UNIT READY result
\* r1 (success, or failure with sense data); ok2 is the result of the
\* second TEST UNIT READY that is issued after a UnitAttention.
RefreshStatusMap(r1, ok2) ==
    IF r1.ok THEN "Ready"
    ELSE IF r1.sense.senseKey = SK_NotReady THEN
        IF r1.sense.asc = 58 THEN "NoMedia"
        ELSE IF r1.sense.asc = 4
             THEN (IF r1.sense.ascq = 1 THEN "Loading" ELSE "NotReady")
        ELSE "NotReady"
    ELSE IF r1.sense.senseKey = SK_UnitAttention THEN
        (IF ok2 THEN "Ready" ELSE "NotReady")
    ELSE IF r1.sense.senseKey = SK_DataProtect THEN "WriteProtected"
    ELSE "Error"

\* TapeDevice::checkOpen: no operation of these specifications closes the
\* device, so inside a run the test passes; it is the guard dev.open of the
\* steps that call into the device.

\* TapeDevice::setError: lastError, status Error, errorOccurred
setError(d, msg) == [d EXCEPT !.lastError = msg, !.status = "Error"]

\* ------------------------------------------------------- simulated drive
\* the next drive command or file-system call fails
InjectFault ==
    /\ obs.faults < MaxFaults
    /\ ~drv.armed
    /\ drv' = [drv EXCEPT !.armed = TRUE]
    /\ obs' = [obs EXCEPT !.faults = @ + 1]
    /\ UNCHANGED <<io, th, dev, rd, bm, xml, scsi>>

\* the armed failure is used up
Disarm(d) == [d EXCEPT !.armed = FALSE]

\* a command handed to the transport (ScsiCommand::Private::execute)
DrvIssue(d, t, c) == [d EXCEPT !.inflight[t] = c]

DrvReturn(d, t) == [d EXCEPT !.inflight[t] = NoCmd]

\* LOCATE(16): the head moves to block b of partition p
DrvLocate(d, p, b) == [d EXCEPT !.part = p, !.block = b]

\* SPACE code 3: the head moves behind the last object of the partition
DrvSpaceEod(d) == [d EXCEPT !.block = Len(d.tape[d.part])]

\* WRITE(6) / WRITE FILEMARKS: the object is written at the head, what lay
\* behind it is gone, the head moves one object on
DrvAppend(d, obj) ==
    [d EXCEPT !.tape[d.part] = Append(SubSeq(@, 1, d.block), obj),
              !.block = @ + 1]

\* READ(6), variable block mode, transfer length len: at end of data BLANK
\* CHECK; at a filemark CHECK CONDITION, the head moves over it; at a block
\* of another length CHECK CONDITION with ILI, min(len, block length) bytes
\* transferred, the head moves over the block; at a block of that length GOOD
DrvRead(d, len) ==
    LET t == d.tape[d.part]
        end == d.block >= Len(t)
        obj == IF end THEN Filemark ELSE t[d.block + 1]
    IN  [ok |-> ~end /\ obj # Filemark /\ obj = len,
         sense |-> IF end THEN BlankCheckSense
                   ELSE IF obj = Filemark THEN FilemarkSense
                   ELSE IF obj # len THEN IncorrectLengthSense
                   ELSE NoSenseData,
         bytes |-> IF end \/ obj = Filemark THEN 0 ELSE Min(len, obj),
         block |-> IF end THEN d.block ELSE d.block + 1]

\* ------------------------------------------------------- application setup
Quiet == \A t \in Threads : th[t].pc = "idle"

\* TapeIO::addFile (sz \in FileSizes) and the directory entry of addDirectory
AddItem(sz, dir) ==
    /\ Quiet /\ ~io.running /\ obs.runs = 0
    /\ Len(io.queue) < MaxQueue
    /\ io' = [io EXCEPT !.queue = Append(@, NewItem(Len(@) + 1, sz, dir))]
    /\ obs' = [obs EXCEPT !.phase = Append(@, "none"),
                          !.sent = Append(@, 0),
                          !.fmSent = Append(@, FALSE),
                          !.wrote = Append(@, 0),
                          !.fmOk = Append(@, FALSE),
                          !.recStart = Append(@, -1),
                          !.firstBlk = Append(@, -1),
                          !.cancelDuring = Append(@, FALSE)]
    /\ UNCHANGED <<th, dev, drv, rd, bm, xml, scsi>>

AddFile == \E sz \in FileSizes : AddItem(sz, FALSE)

AddDirectory == AddItem(0, TRUE)

\* TapeIO::setOptions
SetOptions ==
    /\ Quiet /\ ~io.running /\ obs.runs = 0
    /\ rd.files = <<>> /\ rd.returned = <<>>
    /\ io.options.continueOnError
    /\ io' = [io EXCEPT !.options.continueOnError = FALSE]
    /\ UNCHANGED <<th, dev, drv, rd, obs, bm, xml, scsi>>

\* TapeIO::setIndex with a fresh, empty index
SetIndex ==
    /\ Quiet /\ ~io.running /\ obs.runs = 0
    /\ ~io.index.attached
    /\ io' = [io EXCEPT !.index = [attached |-> TRUE, files |-> <<>>]]
    /\ UNCHANGED <<th, dev, drv, rd, obs, bm, xml, scsi>>

\* TapeDevice::open: open the transport, then refreshStatus(), whose
\* setStatus emits statusChanged (the status was Unknown)
OpenDevice ==
    /\ Quiet /\ ~dev.open
    /\ LET r1 == IF drv.armed THEN TurFail(NoMediaSense) ELSE TurOk IN
          /\ dev' = [dev EXCEPT !.open = TRUE,
                                !.status = RefreshStatusMap(r1, FALSE),
                                !.lastSenseData = IF r1.ok THEN @ ELSE r1.sense]
          /\ drv' = Disarm(drv)
          /\ obs' = [obs EXCEPT
                        !.call = [NoCall EXCEPT
                                     !.op = "open", !.ret = 1, !.pre = dev,
                                     !.sig = <<RefreshStatusMap(r1, FALSE)>>]]
    /\ UNCHANGED <<io, th, rd, bm, xml, scsi>>

\* ------------------------------------------------------ TapeIO: control API
\* a variant of a refused start that also clears the cancelled flag
RefusedClears(r, msg) == [r EXCEPT !.lastError = msg, !.cancelled = FALSE]

\* TapeIO::startWrite refused: the last-error text is set, false returned
Refused(r, msg) == [r EXCEPT !.lastError = msg]

\* TapeIO::startWrite, called on thread t
StartWrite(t) ==
    /\ th[t].pc = "idle"
    /\ IF io.running THEN
          /\ io' = Refused(io, "Transfer already in progress")
          /\ io' # io
          /\ UNCHANGED <<th, obs>>
       ELSE IF ~dev.open THEN
          /\ io' = Refused(io, "Device not open")
          /\ io' # io
          /\ UNCHANGED <<th, obs>>
       ELSE IF io.queue = <<>> THEN
          /\ io' = Refused(io, "No files in queue")
          /\ io' # io
          /\ UNCHANGED <<th, obs>>
       ELSE
          /\ obs.runs < MaxRuns
          /\ io' = [io EXCEPT !.running = TRUE, !.paused = FALSE,
                              !.cancelled = FALSE,
                              !.stats = resetStats(io.queue)]
          /\ th' = [th EXCEPT ![t].pc = "pq_next", ![t].i = 1]
          /\ obs' = [obs EXCEPT !.runs = @ + 1, !.sigWrites = -1,
                                !.cmdWhilePaused = FALSE]
    /\ UNCHANGED <<dev, drv, rd, bm, xml, scsi>>

InProgressSet == {k \in 1..Len(io.queue) : io.queue[k].status = "InProgress"}

\* TapeIO::pause, called on the control thread
Pause ==
    /\ th["c"].pc = "idle"
    /\ io.running /\ ~io.paused
    /\ obs.pauses < MaxPauses
    /\ io' = [io EXCEPT !.paused = TRUE]
    /\ obs' = [obs EXCEPT !.pauses = @ + 1,
                          !.sigWrites = IF io.cancelled THEN @ ELSE 0]
    /\ UNCHANGED <<th, dev, drv, rd, bm, xml, scsi>>

\* a variant of resume that runs processQueue() without clearing the flag
ResumeKeepsPaused ==
    /\ th["c"].pc = "idle"
    /\ io.running /\ io.paused
    /\ th' = [th EXCEPT !["c"].pc = "pq_next", !["c"].i = 1]
    /\ obs' = [obs EXCEPT !.sigWrites = IF io.cancelled THEN @ ELSE -1]
    /\ UNCHANGED <<io, dev, drv, rd, bm, xml, scsi>>

\* TapeIO::resume, called on the control thread: clears the flag and then
\* runs processQueue() on the calling thread
Resume ==
    /\ th["c"].pc = "idle"
    /\ io.running /\ io.paused
    /\ io' = [io EXCEPT !.paused = FALSE]
    /\ th' = [th EXCEPT !["c"].pc = "pq_next", !["c"].i = 1]
    /\ obs' = [obs EXCEPT !.sigWrites = IF io.cancelled THEN @ ELSE -1]
    /\ UNCHANGED <<dev, drv, rd, bm, xml, scsi>>

\* TapeIO::cancel, called on the control thread
Cancel ==
    /\ th["c"].pc = "idle"
    /\ ~io.cancelled \/ io.paused
    /\ io' = [io EXCEPT !.cancelled = TRUE, !.paused = FALSE]
    /\ obs' = [obs EXCEPT
                  !.sigWrites = IF io.running /\ ~io.cancelled THEN 0 ELSE @,
                  !.cancelDuring = [k \in DOMAIN @ |->
                      @[k] \/ (k \in InProgressSet /\
                                obs.phase[k] \in {"none", "located", "data"})]]
    /\ UNCHANGED <<th, dev, drv, rd, bm, xml, scsi>>

\* The order of the commands issued for one item of size sz, followed as
\* they are issued: LOCATE to (data partition, 0), SPACE to end of data,
\* WRITEs of at most the block size each, WRITE FILEMARKS(1) once the bytes
\* sent make up the file; any other command or order is "bad" for good.
NextPhase(ph, snt, sz, c) ==
    IF ph = "none" /\ c = Cmd("LOCATE", DataPartition, 0) THEN "located"
    ELSE IF ph = "located" /\ c = Cmd("SPACE", 3, 0) THEN "data"
    ELSE IF ph = "data" /\ c.op = "WRITE" /\ c.a >= 1
            /\ c.a <= io.options.blockSize /\ snt + c.a <= sz THEN "data"
    ELSE IF ph = "data" /\ c = Cmd("WFM", 1, 0) /\ snt = sz THEN "filemark"
    ELSE "bad"

\* observation of one command issued for item k
ObsIssue(o, k, c) ==
    [o EXCEPT !.phase[k] = NextPhase(@, o.sent[k], io.queue[k].size, c),
              !.sent[k] = IF o.phase[k] = "data" /\ c.op = "WRITE"
                             /\ @ + c.a <= io.queue[k].size
                          THEN @ + c.a ELSE @,
              !.fmSent[k] = @ \/ c.op = "WFM",
              !.sigWrites = IF c.op = "WRITE" /\ @ >= 0
                            THEN Min(@ + 1, 2) ELSE @,
              !.cmdWhilePaused = @ \/ (io.paused /\ c.op # "WRITE")]

\* --------------------------------------------------- TapeIO::processQueue
\* The end of one loop iteration: writeFileToTape has set the item's final
\* status st (and message); processQueue counts it in the statistics and
\* either goes on to the next index or, on failure without continueOnError,
\* leaves the loop.
Continues(st) == st = "Completed" \/ io.options.continueOnError

IoItemDone(r, k, st, msg) ==
    [r EXCEPT !.queue[k].status = st,
              !.queue[k].errorMessage = IF st = "Failed" THEN msg ELSE @,
              !.stats.completedFiles = IF st = "Completed" THEN @ + 1 ELSE @,
              !.stats.failedFiles = IF st = "Completed" THEN @ ELSE @ + 1]

ThItemDone(r, st) ==
    [r EXCEPT !.pc = IF Continues(st) THEN "pq_next" ELSE "pq_end",
              !.i = IF Continues(st) THEN @ + 1 ELSE @]

ObsItemDone(o, st) ==
    [o EXCEPT !.failed = @ \/ st # "Completed"]

\* loop head: i < size, the cancelled flag, the pause wait, the status test
PqNext(t) ==
    /\ th[t].pc = "pq_next"
    /\ IF th[t].i > Len(io.queue) \/ io.cancelled THEN
          th' = [th EXCEPT ![t].pc = "pq_end"]
       ELSE
          /\ ~io.paused
          /\ IF io.queue[th[t].i].status # "Pending"
             THEN th' = [th EXCEPT ![t].i = @ + 1]
             ELSE th' = [th EXCEPT ![t].pc = "pq_start"]
    /\ UNCHANGED <<io, dev, drv, rd, obs, bm, xml, scsi>>

\* currentItemIndex = i; item.status = InProgress; emit fileStarted(item)
PqStart(t) ==
    /\ th[t].pc = "pq_start"
    /\ io' = [io EXCEPT !.currentItemIndex = th[t].i - 1,
                        !.queue[th[t].i].status = "InProgress"]
    /\ th' = [th EXCEPT ![t].pc = "wf_open"]
    /\ obs' = [obs EXCEPT
                  !.startLog = Append(@, th[t].i),
                  !.startedNonPending =
                      @ \/ io.queue[th[t].i].status # "Pending",
                  !.lateStart =
                      @ \/ (obs.failed /\ ~io.options.continueOnError)]
    /\ UNCHANGED <<dev, drv, rd, bm, xml, scsi>>

\* running = false; currentItemIndex = -1; emit transferCompleted
PqEnd(t) ==
    /\ th[t].pc = "pq_end"
    /\ io' = [io EXCEPT !.running = FALSE, !.currentItemIndex = -1]
    /\ th' = [th EXCEPT ![t].pc = "idle"]
    /\ UNCHANGED <<dev, drv, rd, obs, bm, xml, scsi>>

\* ---------------------------------------------- TapeIO::writeFileToTape
\* what writeFileToTape does to the index after the filemark: it builds the
\* file entry with one extent and the hash attribute in a local object; the
\* call that would add the entry to the index root directory is commented
\* out, so the index comes back as it was.
UpdateIndex(idx, item, sp) ==
    LET extent == [partition |-> DataPartition, startBlock |-> sp.blockNumber,
                   byteOffset |-> 0, byteCount |-> item.size, fileOffset |-> 0]
        newFile == [name |-> item.name, length |-> item.size,
                    extents |-> <<extent>>,
                    xattrs |-> IF item.sourceHash # <<>>
                               THEN <<item.sourceHash>> ELSE <<>>]
    IN  idx

\* The directory shortcut; QFile::open; the source hash when verifyAfterWrite
\* (a failed hash leaves sourceHash empty); then seekToEnd(1) -> locate(1, 0):
\* setStatus(Locating), LOCATE(16) issued
WfOpen(t) ==
    /\ th[t].pc = "wf_open"
    /\ UNCHANGED <<rd, bm, xml, scsi>>
    /\ LET k == th[t].i
           c == Cmd("LOCATE", DataPartition, 0)
           h == HashOf(Chunks(io.queue[k].size, io.options.blockSize))
       IN
       IF io.queue[k].isDirectory THEN
          /\ io' = IoItemDone(io, k, "Completed", "")
          /\ th' = [th EXCEPT ![t] = ThItemDone(@, "Completed")]
          /\ obs' = ObsItemDone(obs, "Completed")
          /\ UNCHANGED <<dev, drv>>
       ELSE
          \/ /\ drv.armed
             /\ io' = IoItemDone(io, k, "Failed", "Failed to open source file")
             /\ th' = [th EXCEPT ![t] = ThItemDone(@, "Failed")]
             /\ obs' = ObsItemDone(obs, "Failed")
             /\ drv' = Disarm(drv)
             /\ UNCHANGED dev
          \/ /\ dev.open
             /\ io' = [io EXCEPT !.queue[k].sourceHash =
                          IF io.options.verifyAfterWrite /\ ~drv.armed
                          THEN h ELSE @]
             /\ dev' = [dev EXCEPT !.status = "Locating"]
             /\ drv' = DrvIssue(Disarm(drv), t, c)
             /\ th' = [th EXCEPT ![t].pc = "wf_locate_w", ![t].fpos = 0]
             /\ obs' = ObsIssue(obs, k, c)

\* LOCATE(16) returns.  Success: position = (partition, block), Ready, and
\* spaceToEndOfData() issues SPACE.  Failure: setError, refreshStatus.
WfLocateDone(t) ==
    /\ th[t].pc = "wf_locate_w"
    /\ UNCHANGED <<io, rd, bm, xml, scsi>>
    /\ LET k == th[t].i
           c == drv.inflight[t]
           n == Cmd("SPACE", 3, 0)
           u == Cmd("TUR", 0, 0)
       IN
       IF ~drv.armed THEN
          /\ dev' = [dev EXCEPT !.lastSenseData = NoSenseData,
                                !.position.partition = c.a,
                                !.position.blockNumber = c.b,
                                !.status = "Ready"]
          /\ drv' = DrvIssue(DrvLocate(drv, c.a, c.b), t, n)
          /\ th' = [th EXCEPT ![t].pc = "wf_space_w"]
          /\ obs' = ObsIssue(obs, k, n)
       ELSE
          /\ dev' = setError([dev EXCEPT !.lastSenseData = MediumErrorSense],
                             "Locate failed")
          /\ drv' = DrvIssue(Disarm(drv), t, u)
          /\ th' = [th EXCEPT ![t].pc = "tur_w",
                              ![t].err = "Failed to seek to end of data"]
          /\ obs' = ObsIssue(obs, k, u)

\* refreshStatus: the first TEST UNIT READY returns; after UnitAttention a
\* second one is issued; otherwise the status is set, the failed device call
\* returns and the item is Failed
TurDone(t) ==
    /\ th[t].pc = "tur_w"
    /\ UNCHANGED <<rd, bm, xml, scsi>>
    /\ \E r \in RunTurOutcomes :
          LET d1 == [dev EXCEPT !.lastSenseData = IF r.ok THEN @ ELSE r.sense]
              u == Cmd("TUR", 0, 0)
          IN IF ~r.ok /\ r.sense.senseKey = SK_UnitAttention THEN
                /\ dev' = d1
                /\ drv' = DrvIssue(drv, t, u)
                /\ th' = [th EXCEPT ![t].pc = "tur2_w"]
                /\ obs' = ObsIssue(obs, th[t].i, u)
                /\ UNCHANGED io
             ELSE
                /\ dev' = [d1 EXCEPT !.status = RefreshStatusMap(r, FALSE)]
                /\ drv' = DrvReturn(drv, t)
                /\ io' = IoItemDone(io, th[t].i, "Failed", th[t].err)
                /\ th' = [th EXCEPT ![t] = ThItemDone(@, "Failed")]
                /\ obs' = ObsItemDone(obs, "Failed")

\* refreshStatus: the retry after UnitAttention returns
Tur2Done(t) ==
    /\ th[t].pc = "tur2_w"
    /\ \E ok2 \in BOOLEAN :
          dev' = [dev EXCEPT !.status =
                     RefreshStatusMap(TurFail(UnitAttentionSense), ok2)]
    /\ drv' = DrvReturn(drv, t)
    /\ io' = IoItemDone(io, th[t].i, "Failed", th[t].err)
    /\ th' = [th EXCEPT ![t] = ThItemDone(@, "Failed")]
    /\ obs' = ObsItemDone(obs, "Failed")
    /\ UNCHANGED <<rd, bm, xml, scsi>>

\* SPACE returns.  Success: only endOfPartition is set; then
\* startPos = device->position(), totalWritten = 0.  Failure: setError.
WfSpaceDone(t) ==
    /\ th[t].pc = "wf_space_w"
    /\ UNCHANGED <<rd, bm, xml, scsi>>
    /\ LET k == th[t].i IN
       IF ~drv.armed THEN
          /\ dev' = [dev EXCEPT !.lastSenseData = NoSenseData,
                                !.position.endOfPartition = TRUE]
          /\ drv' = DrvReturn(DrvSpaceEod(drv), t)
          /\ th' = [th EXCEPT ![t].pc = "wf_loop",
                              ![t].startPos = dev'.position,
                              ![t].totalWritten = 0]
          /\ obs' = [obs EXCEPT !.recStart[k] = dev'.position.blockNumber]
          /\ UNCHANGED io
       ELSE
          /\ dev' = setError([dev EXCEPT !.lastSenseData = MediumErrorSense],
                             "Space to EOD failed")
          /\ drv' = DrvReturn(Disarm(drv), t)
          /\ io' = IoItemDone(io, k, "Failed", "Failed to seek to end of data")
          /\ th' = [th EXCEPT ![t] = ThItemDone(@, "Failed")]
          /\ obs' = ObsItemDone(obs, "Failed")

\* while (!file.atEnd()) { if (cancelled) { Cancelled; return false; }
\* and the first test of the paused flag.  At the end of the file
\* writeFilemark(1) issues WRITE FILEMARKS.
WfLoop(t) ==
    /\ th[t].pc = "wf_loop"
    /\ UNCHANGED <<rd, bm, xml, scsi>>
    /\ LET k == th[t].i
           n == Cmd("WFM", 1, 0)
       IN
       IF th[t].fpos >= io.queue[k].size THEN
          /\ drv' = DrvIssue(drv, t, n)
          /\ th' = [th EXCEPT ![t].pc = "wf_fm_w"]
          /\ obs' = ObsIssue(obs, k, n)
          /\ UNCHANGED <<io, dev>>
       ELSE IF io.cancelled THEN
          /\ io' = IoItemDone(io, k, "Cancelled", "")
          /\ th' = [th EXCEPT ![t] = ThItemDone(@, "Cancelled")]
          /\ obs' = ObsItemDone(obs, "Cancelled")
          /\ UNCHANGED <<dev, drv>>
       ELSE
          /\ th' = [th EXCEPT ![t].pc = IF io.paused THEN "wf_sleep"
                                        ELSE "wf_write"]
          /\ UNCHANGED <<io, dev, drv, obs>>

\* inside while (paused): msleep(100); if (cancelled) { Cancelled; return }
WfSleep(t) ==
    /\ th[t].pc = "wf_sleep"
    /\ IF io.cancelled THEN
          /\ io' = IoItemDone(io, th[t].i, "Cancelled", "")
          /\ th' = [th EXCEPT ![t] = ThItemDone(@, "Cancelled")]
          /\ obs' = ObsItemDone(obs, "Cancelled")
       ELSE
          /\ th' = [th EXCEPT ![t].pc = "wf_pause"]
          /\ UNCHANGED <<io, obs>>
    /\ UNCHANGED <<dev, drv, rd, bm, xml, scsi>>

\* while (paused): the flag is read again
WfPause(t) ==
    /\ th[t].pc = "wf_pause"
    /\ th' = [th EXCEPT ![t].pc = IF io.paused THEN "wf_sleep" ELSE "wf_write"]
    /\ UNCHANGED <<io, dev, drv, rd, obs, bm, xml, scsi>>

\* buffer = file.read(blockSize): at most blockSize bytes, or a read error;
\* then writeBlock(buffer): setStatus(Writing), WRITE(6) issued with the
\* buffer's size as transfer length
WfWrite(t) ==
    /\ th[t].pc = "wf_write"
    /\ UNCHANGED <<rd, bm, xml, scsi>>
    /\ LET k == th[t].i
           len == Min(io.options.blockSize, io.queue[k].size - th[t].fpos)
           c == Cmd("WRITE", len, 0)
       IN
       IF ~drv.armed THEN
          /\ dev' = [dev EXCEPT !.status = "Writing"]
          /\ drv' = DrvIssue(drv, t, c)
          /\ th' = [th EXCEPT ![t].pc = "wf_write_w", ![t].fpos = @ + len]
          /\ obs' = ObsIssue(obs, k, c)
          /\ UNCHANGED io
       ELSE
          /\ io' = IoItemDone(io, k, "Failed", "Read error")
          /\ th' = [th EXCEPT ![t] = ThItemDone(@, "Failed")]
          /\ obs' = ObsItemDone(obs, "Failed")
          /\ drv' = Disarm(drv)
          /\ UNCHANGED dev

\* WRITE(6) returns.  Success: blockNumber++, Ready, the bytes transferred
\* are returned and added to totalWritten, item.bytesTransferred and
\* stats.completedBytes.  Failure: setError, refreshStatus.
WfWriteDone(t) ==
    /\ th[t].pc = "wf_write_w"
    /\ UNCHANGED <<rd, bm, xml, scsi>>
    /\ LET k == th[t].i
           c == drv.inflight[t]
           u == Cmd("TUR", 0, 0)
       IN
       IF ~drv.armed THEN
          /\ dev' = [dev EXCEPT !.lastSenseData = NoSenseData,
                                !.position.blockNumber = @ + 1,
                                !.status = "Ready"]
          /\ drv' = DrvReturn(DrvAppend(drv, c.a), t)
          /\ th' = [th EXCEPT ![t].pc = "wf_loop",
                              ![t].totalWritten = @ + c.a]
          /\ io' = [io EXCEPT !.queue[k].bytesTransferred =
                                 th[t].totalWritten + c.a,
                              !.stats.completedBytes = @ + c.a]
          /\ obs' = [obs EXCEPT !.wrote[k] = @ + c.a,
                                !.firstBlk[k] = IF th[t].totalWritten = 0
                                                THEN drv.block ELSE @]
       ELSE
          /\ dev' = setError([dev EXCEPT !.lastSenseData = MediumErrorSense],
                             "Write failed")
          /\ drv' = DrvIssue(Disarm(drv), t, u)
          /\ th' = [th EXCEPT ![t].pc = "tur_w", ![t].err = "Write error"]
          /\ obs' = ObsIssue(obs, k, u)
          /\ UNCHANGED io

\* WRITE FILEMARKS returns.  Success: fileNumber += count, the index update,
\* item.status = Completed.  Failure: setError, the item is Failed.
WfFmDone(t) ==
    /\ th[t].pc = "wf_fm_w"
    /\ UNCHANGED <<rd, bm, xml, scsi>>
    /\ LET k == th[t].i
           c == drv.inflight[t]
       IN
       IF ~drv.armed THEN
          /\ dev' = [dev EXCEPT !.lastSenseData = NoSenseData,
                                !.position.fileNumber = @ + c.a]
          /\ drv' = DrvReturn(DrvAppend(drv, Filemark), t)
          /\ io' = IoItemDone(
                      [io EXCEPT !.index =
                          IF @.attached
                          THEN UpdateIndex(@, io.queue[k], th[t].startPos)
                          ELSE @],
                      k, "Completed", "")
          /\ th' = [th EXCEPT ![t] = ThItemDone(@, "Completed")]
          /\ obs' = ObsItemDone([obs EXCEPT !.fmOk[k] = TRUE], "Completed")
       ELSE
          /\ dev' = setError([dev EXCEPT !.lastSenseData = MediumErrorSense],
                             "Write filemark failed")
          /\ drv' = DrvReturn(Disarm(drv), t)
          /\ io' = IoItemDone(io, k, "Failed", "Failed to write filemark")
          /\ th' = [th EXCEPT ![t] = ThItemDone(@, "Failed")]
          /\ obs' = ObsItemDone(obs, "Failed")

\* ------------------------------------------------- TapeDevice::locate
\* The application positions the tape before a read: locate(p, 0).
\* Success: position = (p, 0), Ready.  Failure: setError, refreshStatus.
DeviceLocate ==
    /\ Quiet /\ dev.open /\ rd.files = <<>>
    /\ drv.part # DataPartition
    /\ IF ~drv.armed THEN
          /\ dev' = [dev EXCEPT !.lastSenseData = NoSenseData,
                                !.position.partition = DataPartition,
                                !.position.blockNumber = 0,
                                !.status = "Ready"]
          /\ drv' = DrvLocate(drv, DataPartition, 0)
       ELSE
          /\ \E r \in RunTurOutcomes, ok2 \in BOOLEAN :
                dev' = [dev EXCEPT !.lastError = "Locate failed",
                                   !.lastSenseData =
                                       IF r.ok THEN MediumErrorSense
                                       ELSE r.sense,
                                   !.status = RefreshStatusMap(r, ok2)]
          /\ drv' = Disarm(drv)
    /\ UNCHANGED <<io, th, rd, obs, bm, xml, scsi>>

\* ------------------------------------------------------ TapeIO: reading
\* the cartridges read from: the data partition holds one file
ReadCartridges ==
    { <<1, Filemark>>, <<1, 1, Filemark>>, <<BlockSize, Filemark>> }

\* LtfsFile entries handed to readFiles: length and stored hash attribute
ReadSizes == {1, BlockSize}
StoredHashes == {<<>>, <<0>>, <<BlockSize>>}
LtfsFiles == [length : ReadSizes, hash : StoredHashes]
ReadRequests ==
    UNION { [1..n -> LtfsFiles] : n \in 1..MaxQueue }

NoDest == [exists |-> FALSE, content |-> <<>>]

\* TapeIO::verifyFileHash on the item and the destination content
verifyFileHash(it, content, hashFails) ==
    IF hashFails THEN
        [it EXCEPT !.errorMessage = "Hash calculation failed",
                   !.status = "Failed"]
    ELSE LET v == [it EXCEPT !.destHash = HashOf(content),
                             !.hashVerified = (it.sourceHash = HashOf(content))]
         IN IF ~v.hashVerified
            THEN [v EXCEPT !.errorMessage = "Hash verification failed",
                           !.status = "Failed"]
            ELSE v

\* the end of readFileFromTape after the loop: file.close(), verification
\* when enabled and a source hash is present, then status Completed
ReadFinish(it, content, hashFails) ==
    LET v == IF io.options.verifyAfterWrite /\ it.sourceHash # <<>>
             THEN verifyFileHash(it, content, hashFails) ELSE it
    IN  IF v.status = "Failed" THEN v ELSE [v EXCEPT !.status = "Completed"]

\* the end of readFile: the status is set from the result of
\* readFileFromTape (Completed on success, Failed otherwise), the item is
\* emitted (fileCompleted / fileError); readFiles goes on or breaks
RdDone(r, it, destAfter) ==
    LET ok == it.status = "Completed"
        out == [it EXCEPT !.status = IF ok THEN "Completed" ELSE "Failed"]
    IN  [r EXCEPT !.item = out,
                  !.dest[r.j] = destAfter,
                  !.reported = Append(@,
                      [file |-> r.j, status |-> out.status,
                       inner |-> it.status,
                       errorMessage |-> out.errorMessage,
                       hashVerified |-> out.hashVerified,
                       bytes |-> out.bytesTransferred,
                       destExists |-> destAfter.exists,
                       content |-> destAfter.content]),
                  !.allSuccess = @ /\ ok,
                  !.stop = ~ok /\ ~io.options.continueOnError,
                  !.j = @ + 1]

\* TapeIO::readFiles, called on thread t: mkpath(destDir), then the loop;
\* cancelledBefore notes whether cancel() had been called before this call
ReadFiles(t) ==
    /\ th[t].pc = "idle" /\ ~io.running
    /\ rd.files = <<>> /\ rd.returned = <<>>
    /\ IF drv.armed THEN
          /\ io' = [io EXCEPT !.lastError =
                                 "Failed to create destination directory"]
          /\ rd' = [rd EXCEPT !.returned = <<FALSE>>]
          /\ drv' = Disarm(drv)
          /\ UNCHANGED th
       ELSE
          /\ \E fs \in ReadRequests :
                rd' = [rd EXCEPT !.files = fs, !.j = 1, !.allSuccess = TRUE,
                                 !.dest = [n \in 1..Len(fs) |-> NoDest],
                                 !.cancelledBefore = io.cancelled]
          /\ th' = [th EXCEPT ![t].pc = "rf_next"]
          /\ UNCHANGED <<io, drv>>
    /\ UNCHANGED <<dev, obs, bm, xml, scsi>>

\* the loop of readFiles and the head of readFile / readFileFromTape: the
\* device-open test, the local item (no source hash is copied from the tape
\* file), fileStarted, the destination file created
RfNext(t) ==
    /\ th[t].pc = "rf_next"
    /\ UNCHANGED <<dev, obs, bm, xml, scsi>>
    /\ IF rd.j > Len(rd.files) \/ rd.stop THEN
          /\ rd' = [rd EXCEPT !.returned = <<rd.allSuccess>>]
          /\ th' = [th EXCEPT ![t].pc = "idle"]
          /\ UNCHANGED <<io, drv>>
       ELSE IF ~dev.open THEN
          /\ io' = [io EXCEPT !.lastError = "Device not open"]
          /\ rd' = [rd EXCEPT !.allSuccess = FALSE,
                              !.stop = ~io.options.continueOnError,
                              !.j = @ + 1]
          /\ UNCHANGED <<th, drv>>
       ELSE
          LET it == [NewItem(rd.j, rd.files[rd.j].length, FALSE)
                        EXCEPT !.status = "InProgress"]
          IN IF drv.armed THEN
                /\ rd' = RdDone(rd,
                                [it EXCEPT !.status = "Failed",
                                           !.errorMessage =
                                      "Failed to create destination file"],
                                NoDest)
                /\ drv' = Disarm(drv)
                /\ UNCHANGED <<io, th>>
             ELSE
                /\ rd' = [rd EXCEPT !.item = it, !.totalRead = 0,
                                    !.dest[rd.j] = [exists |-> TRUE,
                                                    content |-> <<>>]]
                /\ th' = [th EXCEPT ![t].pc = "rf_loop"]
                /\ UNCHANGED <<io, drv>>

\* while (totalRead < expectedSize): the cancelled test (Cancelled, the
\* destination removed), the pause wait, then readBlock(buffer, toRead):
\* the buffer is sized toRead and READ(6) is issued with transfer length 1
RfLoop(t) ==
    /\ th[t].pc = "rf_loop"
    /\ UNCHANGED <<io, dev, obs, bm, xml, scsi>>
    /\ IF rd.totalRead >= rd.item.size THEN
          /\ rd' = RdDone(rd, ReadFinish(rd.item, rd.dest[rd.j].content,
                                         drv.armed),
                          rd.dest[rd.j])
          /\ th' = [th EXCEPT ![t].pc = "rf_next"]
          /\ UNCHANGED drv
       ELSE IF io.cancelled THEN
          /\ rd' = RdDone(rd,
                          [rd.item EXCEPT !.status = "Cancelled"], NoDest)
          /\ th' = [th EXCEPT ![t].pc = "rf_next"]
          /\ UNCHANGED drv
       ELSE
          /\ ~io.paused
          /\ LET toRead == Min(io.options.blockSize,
                               rd.item.size - rd.totalRead)
             IN drv' = DrvIssue(drv, t, Cmd("READ", 1, toRead))
          /\ th' = [th EXCEPT ![t].pc = "rf_read_w"]
          /\ UNCHANGED <<rd, bm, xml, scsi>>

\* READ(6) returns to readBlock.  BLANK CHECK: 0, the loop is left and the
\* file finishes.  Other failure: setError, -1, the item is Failed and the
\* destination removed.  Success: blockNumber++, the data is written to the
\* destination (a short write fails the item and removes the destination)
\* and counted.
RfReadDone(t) ==
    /\ th[t].pc = "rf_read_w"
    /\ UNCHANGED <<obs, bm, xml, scsi>>
    /\ LET c == drv.inflight[t]
           r == DrvRead(drv, c.a)
           d1 == [dev EXCEPT !.lastSenseData = r.sense]
       IN
       \/ /\ drv.armed
          /\ dev' = setError([dev EXCEPT !.lastSenseData = MediumErrorSense],
                             "Read failed")
          /\ drv' = DrvReturn(Disarm(drv), t)
          /\ rd' = RdDone(rd, [rd.item EXCEPT !.status = "Failed",
                                              !.errorMessage = "Read error"],
                          NoDest)
          /\ th' = [th EXCEPT ![t].pc = "rf_next"]
          /\ UNCHANGED io
       \/ /\ drv.armed /\ r.ok
          /\ dev' = [d1 EXCEPT !.position.blockNumber = @ + 1]
          /\ drv' = DrvReturn([Disarm(drv) EXCEPT !.block = r.block], t)
          /\ rd' = RdDone(rd, [rd.item EXCEPT !.status = "Failed",
                                              !.errorMessage = "Write error"],
                          NoDest)
          /\ th' = [th EXCEPT ![t].pc = "rf_next"]
          /\ UNCHANGED io
       \/ /\ ~drv.armed
          /\ drv' = DrvReturn([drv EXCEPT !.block = r.block], t)
          /\ IF r.ok THEN
                /\ dev' = [d1 EXCEPT !.position.blockNumber = @ + 1]
                /\ rd' = [rd EXCEPT
                             !.dest[rd.j].content = Append(@, r.bytes),
                             !.totalRead = @ + r.bytes,
                             !.item.bytesTransferred = rd.totalRead + r.bytes]
                /\ io' = [io EXCEPT !.stats.completedBytes = @ + r.bytes]
                /\ th' = [th EXCEPT ![t].pc = "rf_loop"]
             ELSE IF r.sense.senseKey = SK_BlankCheck THEN
                /\ dev' = d1
                /\ rd' = RdDone(rd, ReadFinish(rd.item,
                                               rd.dest[rd.j].content, FALSE),
                                rd.dest[rd.j])
                /\ th' = [th EXCEPT ![t].pc = "rf_next"]
                /\ UNCHANGED io
             ELSE
                /\ dev' = setError(d1, "Read failed")
                /\ rd' = RdDone(rd, [rd.item EXCEPT
                                        !.status = "Failed",
                                        !.errorMessage = "Read error"],
                                NoDest)
                /\ th' = [th EXCEPT ![t].pc = "rf_next"]
                /\ UNCHANGED io

\* ----------------------------------------------------------- specifications
\* one step of processQueue / writeFileToTape on thread t
\* -------------------------------------------------- TapeDevice: operations
\* The operations of the device controller called directly.  The thread runs
\* them command by command: th.op is the function called, th.steps the
\* controller operations it still has to make (one for a plain operation,
\* the sequence for readLabel, writeLabel and formatForLtfs), th.ret the
\* value the operation in hand returns once its refreshStatus is through.
\* A step works on the call state s: the controller (dev), the drive (drv),
\* the commands issued so far in the call (log), the mediaChanged and
\* errorOccurred events emitted (media, errs), the result of the last
\* command (res), the value returned (ret, a bool as 1 or 0) and whether
\* refreshStatus() is still to run (refresh).

\* sense data of an injected command failure; NoSenseData: none injected
FailSenses ==
    {MediumErrorSense, UnitAttentionSense, NoMediaSense, BlankCheckSense}

\* sense data TEST UNIT READY may fail with
TurSenses ==
    [senseKey : {SK_NotReady}, asc : {4, 48, 58}, ascq : {0, 1, 2}]
    \cup {MediumErrorSense, UnitAttentionSense, DataProtectSense}

Injections(senses) ==
    IF obs.faults < MaxDevFaults THEN {NoSenseData} \cup senses
    ELSE {NoSenseData}

\* ScsiCommandResult together with the drive after the command
DrvResult(k, sn, n, d) == [ok |-> k, sense |-> sn, bytes |-> n, drv |-> d]

\* the position behind the first filemark at or after the head, 0 if none
NextFilemark(d) ==
    LET at == {n \in (d.block + 1)..Len(d.tape[d.part]) :
                  d.tape[d.part][n] = Filemark}
    IN  IF at = {} THEN 0 ELSE CHOOSE n \in at : \A m \in at : n <= m

\* what the drive does with command c: LOAD/UNLOAD; without a medium NOT
\* READY, medium not present; TEST UNIT READY; REWIND to the start of the
\* current partition; LOCATE(16), BLANK CHECK behind the end of data; SPACE
\* over one block (code 0, a filemark in the way is a CHECK CONDITION), over
\* one filemark (code 1, BLANK CHECK when none is left) or to the end of
\* data (code 3); READ(6); WRITE(6); WRITE FILEMARKS; ALLOW OVERWRITE;
\* FORMAT MEDIUM, accepted at the start of partition 0 only, leaves both
\* partitions empty
DrvExec(d, c) ==
    IF c.op = "LOAD" THEN
        DrvResult(TRUE, NoSenseData, 0,
                  [d EXCEPT !.loaded = (c.a = 1), !.part = 0, !.block = 0])
    ELSE IF ~d.loaded THEN DrvResult(FALSE, NoMediaSense, 0, d)
    ELSE IF c.op = "TUR" THEN DrvResult(TRUE, NoSenseData, 0, d)
    ELSE IF c.op = "REWIND" THEN
        DrvResult(TRUE, NoSenseData, 0, [d EXCEPT !.block = 0])
    ELSE IF c.op = "LOCATE" THEN
        IF c.b <= Len(d.tape[c.a])
        THEN DrvResult(TRUE, NoSenseData, 0, DrvLocate(d, c.a, c.b))
        ELSE DrvResult(FALSE, BlankCheckSense, 0,
                       DrvSpaceEod([d EXCEPT !.part = c.a]))
    ELSE IF c.op = "SPACE" /\ c.a = 3 THEN
        DrvResult(TRUE, NoSenseData, 0, DrvSpaceEod(d))
    ELSE IF c.op = "SPACE" /\ c.a = 1 THEN
        IF NextFilemark(d) = 0
        THEN DrvResult(FALSE, BlankCheckSense, 0, DrvSpaceEod(d))
        ELSE DrvResult(TRUE, NoSenseData, 0,
                       [d EXCEPT !.block = NextFilemark(d)])
    ELSE IF c.op = "SPACE" THEN
        IF d.block >= Len(d.tape[d.part])
        THEN DrvResult(FALSE, BlankCheckSense, 0, d)
        ELSE IF d.tape[d.part][d.block + 1] = Filemark
        THEN DrvResult(FALSE, FilemarkSense, 0, [d EXCEPT !.block = @ + 1])
        ELSE DrvResult(TRUE, NoSenseData, 0, [d EXCEPT !.block = @ + 1])
    ELSE IF c.op = "READ" THEN
        DrvResult(DrvRead(d, c.a).ok, DrvRead(d, c.a).sense,
                  DrvRead(d, c.a).bytes,
                  [d EXCEPT !.block = DrvRead(d, c.a).block])
    ELSE IF c.op = "WRITE" THEN
        DrvResult(TRUE, NoSenseData, c.a, DrvAppend(d, c.a))
    ELSE IF c.op = "WFM" THEN
        DrvResult(TRUE, NoSenseData, 0,
                  IF c.a = 1 THEN DrvAppend(d, Filemark)
                  ELSE DrvAppend(DrvAppend(d, Filemark), Filemark))
    ELSE IF c.op = "ALLOW" THEN DrvResult(TRUE, NoSenseData, 0, d)
    ELSE IF d.part = 0 /\ d.block = 0 THEN
        DrvResult(TRUE, NoSenseData, 0,
                  [d EXCEPT !.tape = [p \in 0..1 |-> <<>>]])
    ELSE DrvResult(FALSE, IllegalRequestSense, 0, d)

\* the call state at the next step of the operation in hand; sig: the status
\* at this step, then the values of statusChanged emitted in the call
Current ==
    [dev |-> dev, drv |-> drv, log |-> obs.call.log,
     media |-> obs.call.media, errs |-> obs.call.errs,
     sig |-> <<dev.status>> \o obs.call.sig,
     cause |-> obs.call.cause,
     res |-> [ok |-> TRUE, sense |-> NoSenseData, bytes |-> 0],
     ret |-> 0, refresh |-> FALSE]

\* ScsiCommand::Private::execute: command c goes to the drive and comes back
\* with its result, the failure inj when one is injected; the log keeps the
\* controller status at that time, cause the sense data of the last command
\* that is not a TEST UNIT READY
Executed(s, c, r) ==
    [s EXCEPT !.drv = r.drv,
              !.log = Append(@, [op |-> c.op, a |-> c.a, b |-> c.b,
                                 st |-> s.dev.status, ok |-> r.ok]),
              !.cause = IF c.op = "TUR" THEN @ ELSE r.sense,
              !.res = [ok |-> r.ok, sense |-> r.sense, bytes |-> r.bytes]]

\* the command at the drive, or the injected failure in its place
Execute(s, c, inj) ==
    Executed(s, c, IF inj = NoSenseData THEN DrvExec(s.drv, c)
                   ELSE DrvResult(FALSE, inj, 0, s.drv))

\* d->lastSenseData = result.senseData
Sense(s) == [s EXCEPT !.dev.lastSenseData = s.res.sense]

\* TapeDevice::setStatus: the value and statusChanged(value), when it differs
\* from d->status, which is the last element of sig
setStatus(s, st) ==
    [s EXCEPT !.dev.status = st,
              !.sig = IF @[Len(@)] = st THEN @ ELSE Append(@, st)]

\* TapeDevice::setError: lastError, setStatus(Error), errorOccurred
emitError(s, msg) ==
    [setStatus(s, "Error") EXCEPT !.dev.lastError = msg, !.errs = @ + 1]

\* return v
Return(s, v) == [s EXCEPT !.ret = v]

\* refreshStatus(), then return v
Refresh(s, v) == [s EXCEPT !.ret = v, !.refresh = TRUE]

\* TapeDevice::load
load(s, wait, inj) ==
    LET s1 == Sense(Execute(setStatus(s, "Loading"),
                            Cmd("LOAD", 1, IF wait THEN 0 ELSE 1), inj)) IN
    IF ~s1.res.ok THEN Return(emitError(s1, "Load failed"), 0)
    ELSE IF wait THEN Refresh(s1, 1)
    ELSE Return(s1, 1)

\* TapeDevice::unload
unload(s, wait, inj) ==
    LET s1 == Sense(Execute(setStatus(s, "Unloading"),
                            Cmd("LOAD", 0, IF wait THEN 0 ELSE 1), inj)) IN
    IF ~s1.res.ok THEN Return(emitError(s1, "Unload failed"), 0)
    ELSE IF wait THEN Return(setStatus(s1, "NoMedia"), 1)
    ELSE Return(s1, 1)

\* TapeDevice::rewind
rewind(s, wait, inj) ==
    LET s1 == Sense(Execute(setStatus(s, "Rewinding"),
                            Cmd("REWIND", IF wait THEN 0 ELSE 1, 0), inj)) IN
    IF ~s1.res.ok THEN Return(emitError(s1, "Rewind failed"), 0)
    ELSE IF wait THEN
        Return([setStatus(s1, "Ready") EXCEPT
                   !.dev.position.blockNumber = 0,
                   !.dev.position.fileNumber = 0,
                   !.dev.position.endOfPartition = FALSE], 1)
    ELSE Return(s1, 1)

\* a variant of locate that returns after setError, without refreshStatus()
locateNoRefresh(s, p, b, inj) ==
    LET s1 == Sense(Execute(setStatus(s, "Locating"),
                            Cmd("LOCATE", p, b), inj)) IN
    IF ~s1.res.ok THEN Return(emitError(s1, "Locate failed"), 0)
    ELSE Return([setStatus(s1, "Ready") EXCEPT
                    !.dev.position.partition = p,
                    !.dev.position.blockNumber = b], 1)

\* TapeDevice::locate
locate(s, p, b, inj) ==
    LET s1 == Sense(Execute(setStatus(s, "Locating"),
                            Cmd("LOCATE", p, b), inj)) IN
    IF ~s1.res.ok THEN Refresh(emitError(s1, "Locate failed"), 0)
    ELSE Return([setStatus(s1, "Ready") EXCEPT
                    !.dev.position.partition = p,
                    !.dev.position.blockNumber = b], 1)

\* TapeDevice::spaceBlocks
spaceBlocks(s, count, inj) ==
    LET s1 == Sense(Execute(s, Cmd("SPACE", 0, count), inj)) IN
    IF ~s1.res.ok THEN Return(emitError(s1, "Space blocks failed"), 0)
    ELSE Return([s1 EXCEPT !.dev.position.blockNumber = @ + count], 1)

\* TapeDevice::spaceFilemarks
spaceFilemarks(s, count, inj) ==
    LET s1 == Sense(Execute(s, Cmd("SPACE", 1, count), inj)) IN
    IF ~s1.res.ok THEN Return(emitError(s1, "Space filemarks failed"), 0)
    ELSE Return([s1 EXCEPT !.dev.position.fileNumber = @ + count], 1)

\* TapeDevice::spaceToEndOfData
spaceToEndOfData(s, inj) ==
    LET s1 == Sense(Execute(s, Cmd("SPACE", 3, 0), inj)) IN
    IF ~s1.res.ok THEN Return(emitError(s1, "Space to EOD failed"), 0)
    ELSE Return([s1 EXCEPT !.dev.position.endOfPartition = TRUE], 1)

\* a variant of readBlock that takes BlankCheck for an error like any other
readBlockBlankIsError(s, maxSize, inj) ==
    LET s1 == Sense(Execute(s, Cmd("READ", maxSize, 0), inj)) IN
    IF ~s1.res.ok THEN Return(emitError(s1, "Read failed"), -1)
    ELSE Return([s1 EXCEPT !.dev.position.blockNumber = @ + 1],
                s1.res.bytes)

\* TapeDevice::readBlock
readBlock(s, maxSize, inj) ==
    LET s1 == Sense(Execute(s, Cmd("READ", maxSize, 0), inj)) IN
    IF ~s1.res.ok THEN
        IF s1.res.sense.senseKey = SK_BlankCheck THEN Return(s1, 0)
        ELSE Return(emitError(s1, "Read failed"), -1)
    ELSE Return([s1 EXCEPT !.dev.position.blockNumber = @ + 1],
                s1.res.bytes)

\* a variant of writeBlock that counts the block also when the write failed
writeBlockCountsFailed(s, len, inj) ==
    LET s1 == Sense(Execute(setStatus(s, "Writing"),
                            Cmd("WRITE", len, 0), inj)) IN
    IF ~s1.res.ok
    THEN Refresh([emitError(s1, "Write failed") EXCEPT
                     !.dev.position.blockNumber = @ + 1], -1)
    ELSE Return([setStatus(s1, "Ready") EXCEPT
                    !.dev.position.blockNumber = @ + 1], s1.res.bytes)

\* TapeDevice::writeBlock
writeBlock(s, len, inj) ==
    LET s1 == Sense(Execute(setStatus(s, "Writing"),
                            Cmd("WRITE", len, 0), inj)) IN
    IF ~s1.res.ok THEN Refresh(emitError(s1, "Write failed"), -1)
    ELSE Return([setStatus(s1, "Ready") EXCEPT
                    !.dev.position.blockNumber = @ + 1], s1.res.bytes)

\* TapeDevice::writeFilemark
writeFilemark(s, count, inj) ==
    LET s1 == Sense(Execute(s, Cmd("WFM", count, 0), inj)) IN
    IF ~s1.res.ok THEN Return(emitError(s1, "Write filemark failed"), 0)
    ELSE Return([s1 EXCEPT !.dev.position.fileNumber = @ + count], 1)

\* a variant of allowOverwrite that reports the failure of the command
allowOverwriteChecked(s, inj) ==
    LET s1 == Sense(Execute(s, Cmd("ALLOW", 1, 0), inj)) IN
    Return(s1, IF s1.res.ok THEN 1 ELSE 0)

\* TapeDevice::allowOverwrite
allowOverwrite(s, inj) == Return(Sense(Execute(s, Cmd("ALLOW", 1, 0), inj)), 1)

\* a variant of the FORMAT MEDIUM step whose failure ends formatForLtfs
formatMediumChecked(s, inj) ==
    LET s1 == Sense(Execute(s, Cmd("FORMAT", 14, 1), inj)) IN
    Return(s1, IF s1.res.ok THEN 1 ELSE 0)

\* FORMAT MEDIUM as formatForLtfs issues it: format 0x0E with the partition
\* bit; the result is kept as last sense data and is not looked at
formatMedium(s, inj) == Return(Sense(Execute(s, Cmd("FORMAT", 14, 1), inj)), 1)

\* One controller operation of a function: the operation, its arguments,
\* and the message the function gives to setError when the operation fails
\* ("" when it returns without one).
Op(o, x, y, m) == [op |-> o, a |-> x, b |-> y, msg |-> m]

Perform(s, d, inj) ==
    IF d.op = "load" THEN load(s, d.a = 1, inj)
    ELSE IF d.op = "unload" THEN unload(s, d.a = 1, inj)
    ELSE IF d.op = "rewind" THEN rewind(s, d.a = 1, inj)
    ELSE IF d.op = "formatMedium" THEN formatMedium(s, inj)
    ELSE IF d.op = "locate" THEN locate(s, d.a, d.b, inj)
    ELSE IF d.op = "allowOverwrite" THEN allowOverwrite(s, inj)
    ELSE IF d.op = "spaceBlocks" THEN spaceBlocks(s, d.a, inj)
    ELSE IF d.op = "spaceFilemarks" THEN spaceFilemarks(s, d.a, inj)
    ELSE IF d.op = "spaceToEndOfData" THEN spaceToEndOfData(s, inj)
    ELSE IF d.op = "readBlock" THEN readBlock(s, d.a, inj)
    ELSE IF d.op = "writeBlock" THEN writeBlock(s, d.a, inj)
    ELSE writeFilemark(s, d.a, inj)

\* readLabel, writeLabel and formatForLtfs are straight-line sequences of
\* controller operations, each followed by a test of its result that ends
\* the function: bytesRead <= 0, writeBlock(..) < 0, !operation(..)
StepFailed(v, d) ==
    IF d.op = "readBlock" THEN v <= 0
    ELSE IF d.op = "writeBlock" THEN v < 0
    ELSE v = 0

readLabelSteps(p) ==
    << Op("locate", p, 0, ""),
       Op("readBlock", AnsiLabelLen, 0, "Failed to read ANSI label"),
       Op("readBlock", LtfsReadLen, 0, "Failed to read LTFS label") >>

writeLabelSteps(p) ==
    << Op("locate", p, 0, ""),
       Op("allowOverwrite", 0, 0, ""),
       Op("writeBlock", AnsiLabelLen, 0, "Failed to write ANSI label"),
       Op("writeBlock", LtfsLabelLen, 0, "Failed to write LTFS label"),
       Op("writeFilemark", 1, 0, "") >>

\* a variant that does not space over the filemark behind the labels
formatForLtfsStepsNoSkip ==
    << Op("rewind", 1, 0, ""), Op("formatMedium", 0, 0, "") >>
    \o writeLabelSteps(IndexPartition)
    \o writeLabelSteps(DataPartition)
    \o << Op("locate", IndexPartition, 0, ""),
          Op("writeBlock", IndexLen, 0, "Failed to write initial index"),
          Op("writeFilemark", 2, 0, ""),
          Op("rewind", 1, 0, "") >>

\* TapeDevice::formatForLtfs: the commands in order; the block of IndexLen
\* bytes is InitialIndexDocument
formatForLtfsSteps ==
    << Op("rewind", 1, 0, ""), Op("formatMedium", 0, 0, "") >>
    \o writeLabelSteps(IndexPartition)
    \o writeLabelSteps(DataPartition)
    \o << Op("locate", IndexPartition, 0, ""),
          Op("spaceFilemarks", 1, 0, ""),
          Op("writeBlock", IndexLen, 0, "Failed to write initial index"),
          Op("writeFilemark", 2, 0, ""),
          Op("rewind", 1, 0, "") >>

\* the functions that are sequences; they return a bool (readLabel a label,
\* 1 for one that was read), a plain operation returns its own value
SequenceFunctions == {"readLabel", "writeLabel", "formatForLtfs", "seekToEnd"}

\* ----------------------------------------------- TapeDevice: calls into it
\* TapeDevice::checkOpen on a device that is not open: the message
NotOpen(nm) == "Device not open for operation: " \o nm

\* what a function returns when it fails: -1 from the block transfers,
\* false (from readLabel a label that is not valid) from the others
FailureValue(nm) == IF nm \in {"readBlock", "writeBlock"} THEN -1 ELSE 0

\* entry to function nm of the controller, called by the application thread
\* while no transfer runs; chk is the operation whose checkOpen the call
\* comes to first.  On a device that is not open checkOpen leaves its
\* message and the function returns its failure value; on an open device
\* the thread goes on to the first operation.  What the call does is kept
\* in obs.call.
Call(nm, chk, x, y, steps) ==
    /\ Quiet /\ ~io.running
    /\ obs.calls < MaxCalls
    /\ obs' = [obs EXCEPT
                  !.calls = @ + 1,
                  !.call = [NoCall EXCEPT
                               !.op = nm, !.a = x, !.b = y, !.pre = dev,
                               !.blank = \A p \in 0..1 : drv.tape[p] = <<>>,
                               !.ret = IF dev.open THEN 0
                                       ELSE FailureValue(nm)]]
    /\ IF dev.open
       THEN /\ th' = [th EXCEPT !["w"].pc = IF nm = "refreshStatus"
                                           THEN "tur" ELSE "op",
                               !["w"].op = nm,
                               !["w"].steps = steps,
                               !["w"].ret = 1]
            /\ UNCHANGED dev
       ELSE /\ dev' = [dev EXCEPT !.lastError = NotOpen(chk)]
            /\ UNCHANGED th
    /\ UNCHANGED <<io, drv, rd, bm, xml, scsi>>

\* a function that begins with its own checkOpen
Begin(nm, x, y, steps) == Call(nm, nm, x, y, steps)

\* a variant of close that leaves the status as it is
closeKeepsStatus(d) == [d EXCEPT !.open = FALSE]

\* TapeDevice::close: with a transport, the transport is closed and dropped
\* and the status field is set to Unknown
close(d) ==
    IF d.open THEN [d EXCEPT !.open = FALSE, !.status = "Unknown"] ELSE d

Close ==
    /\ Quiet /\ ~io.running
    /\ obs.calls < MaxCalls
    /\ dev' = close(dev)
    /\ obs' = [obs EXCEPT !.calls = @ + 1,
                          !.call = [NoCall EXCEPT !.op = "close", !.pre = dev]]
    /\ UNCHANGED <<io, th, drv, rd, bm, xml, scsi>>

\* TapeDevice::open when ScsiCommand::open fails: the message, no transport
OpenFails ==
    /\ Quiet /\ ~dev.open
    /\ obs.calls < MaxCalls
    /\ dev' = [dev EXCEPT !.lastError = "Failed to open device"]
    /\ obs' = [obs EXCEPT !.calls = @ + 1,
                          !.call = [NoCall EXCEPT !.op = "open", !.pre = dev]]
    /\ UNCHANGED <<io, th, drv, rd, bm, xml, scsi>>

Flag(w) == IF w THEN 1 ELSE 0

RefreshStatus == Begin("refreshStatus", 0, 0, <<>>)

Load == \E w \in BOOLEAN : Begin("load", Flag(w), 0, <<Op("load", Flag(w), 0, "")>>)

Unload ==
    \E w \in BOOLEAN :
        Begin("unload", Flag(w), 0, <<Op("unload", Flag(w), 0, "")>>)

Rewind ==
    \E w \in BOOLEAN :
        Begin("rewind", Flag(w), 0, <<Op("rewind", Flag(w), 0, "")>>)

Locate ==
    \E p \in 0..1, b \in 0..MaxBlock :
        Begin("locate", p, b, <<Op("locate", p, b, "")>>)

SpaceBlocks == Begin("spaceBlocks", 1, 0, <<Op("spaceBlocks", 1, 0, "")>>)

SpaceFilemarks ==
    Begin("spaceFilemarks", 1, 0, <<Op("spaceFilemarks", 1, 0, "")>>)

SpaceToEndOfData ==
    Begin("spaceToEndOfData", 0, 0, <<Op("spaceToEndOfData", 0, 0, "")>>)

ReadBlock ==
    \E n \in {BlockSize, AnsiLabelLen} :
        Begin("readBlock", n, 0, <<Op("readBlock", n, 0, "")>>)

WriteBlock ==
    \E n \in {BlockSize, AnsiLabelLen} :
        Begin("writeBlock", n, 0, <<Op("writeBlock", n, 0, "")>>)

WriteFilemark ==
    \E n \in 1..2 : Begin("writeFilemark", n, 0, <<Op("writeFilemark", n, 0, "")>>)

ReadLabel == \E p \in 0..1 : Begin("readLabel", p, 0, readLabelSteps(p))

WriteLabel == \E p \in 0..1 : Begin("writeLabel", p, 0, writeLabelSteps(p))

FormatForLtfs == Begin("formatForLtfs", 0, 0, formatForLtfsSteps)

\* TapeDevice::seekToBeginning: locate(partition, 0)
SeekToBeginning ==
    \E p \in 0..1 :
        Call("seekToBeginning", "locate", p, 0, <<Op("locate", p, 0, "")>>)

\* TapeDevice::seekToEnd: locate(partition, 0), then spaceToEndOfData()
SeekToEnd ==
    \E p \in 0..1 :
        Call("seekToEnd", "locate", p, 0,
             <<Op("locate", p, 0, ""), Op("spaceToEndOfData", 0, 0, "")>>)

\* the controller and the drive after a step on call state s
Leave(s) ==
    /\ dev' = s.dev
    /\ drv' = s.drv

\* the observation after a step on call state s in which n failures were
\* injected, the call returning v when it is over
ObsCall(s, n, over, v) ==
    [obs EXCEPT !.faults = @ + n,
                !.call.log = s.log,
                !.call.media = s.media,
                !.call.errs = s.errs,
                !.call.sig = Tail(s.sig),
                !.call.cause = s.cause,
                !.call.ret = IF over THEN v ELSE @]

\* an operation has returned v to the function: the function's test of the
\* result (setError when it has a message for the failure), then its next
\* operation or its return
Finish(s, n, v) ==
    LET plain == th["w"].op \notin SequenceFunctions
        failed == ~plain /\ StepFailed(v, Head(th["w"].steps))
        msg == IF failed THEN Head(th["w"].steps).msg ELSE ""
        over == plain \/ failed \/ Len(th["w"].steps) = 1
    IN  /\ Leave(IF msg # "" THEN emitError(s, msg) ELSE s)
        /\ th' = [th EXCEPT !["w"].pc = IF over THEN "idle" ELSE "op",
                            !["w"].steps = IF over THEN <<>> ELSE Tail(@)]
        /\ obs' = ObsCall(IF msg # "" THEN emitError(s, msg) ELSE s, n, over,
                          IF plain THEN v ELSE IF failed THEN 0 ELSE 1)
        /\ UNCHANGED <<io, rd, bm, xml, scsi>>

\* s1: the call state when the operation returns or calls refreshStatus()
Performed(s1, n) ==
    IF s1.refresh THEN
        /\ Leave(s1)
        /\ th' = [th EXCEPT !["w"].pc = "tur", !["w"].ret = s1.ret]
        /\ obs' = ObsCall(s1, n, FALSE, 0)
        /\ UNCHANGED <<io, rd, bm, xml, scsi>>
    ELSE Finish(s1, n, s1.ret)

\* the next operation of the function: its command at the drive and what
\* the controller does with the result, up to its return or its call of
\* refreshStatus()
DevOp ==
    /\ th["w"].pc = "op"
    /\ \E inj \in Injections(FailSenses) :
          Performed(Perform(Current, Head(th["w"].steps), inj),
                    Flag(inj # NoSenseData))

\* s1: the call state when the first TEST UNIT READY is back
Tested(s1, n) ==
    IF ~s1.res.ok /\ s1.res.sense.senseKey = SK_UnitAttention THEN
        /\ Leave(Sense(s1))
        /\ th' = [th EXCEPT !["w"].pc = "tur2"]
        /\ obs' = ObsCall(s1, n, FALSE, 0)
        /\ UNCHANGED <<io, rd, bm, xml, scsi>>
    ELSE Finish(setStatus(IF s1.res.ok THEN s1 ELSE Sense(s1),
                          RefreshStatusMap(s1.res, FALSE)),
                n, th["w"].ret)

\* refreshStatus: the first TEST UNIT READY and the status it maps to; a
\* UnitAttention leads to the second one
DevTur ==
    /\ th["w"].pc = "tur"
    /\ \E inj \in Injections(TurSenses) :
          Tested(Execute(Current, Cmd("TUR", 0, 0), inj),
                 Flag(inj # NoSenseData))

\* refreshStatus: the second TEST UNIT READY; Ready and mediaChanged(true)
\* when it succeeds, NotReady when it fails
DevTur2 ==
    /\ th["w"].pc = "tur2"
    /\ \E inj \in Injections(TurSenses) :
          LET s3 == Execute(Current, Cmd("TUR", 0, 0), inj) IN
          Finish([setStatus(s3, RefreshStatusMap(
                                    TurFail(dev.lastSenseData), s3.res.ok))
                     EXCEPT !.media = IF s3.res.ok THEN @ + 1 ELSE @],
                 Flag(inj # NoSenseData), th["w"].ret)

\* ------------------------------------------------------------- index codec
\* IndexWriter and IndexParser (libqltfs/xml).  A document is the tree of its
\* elements: tag, the version attribute (root only), text, children in
\* document order.  A text is a sequence of characters or words.  A point in
\* time is [valid, sec, msec], sec standing for yyyy-MM-ddTHH:mm:ss.  The
\* index classes are those of the data model: LtfsIndex {version, creator,
\* volumeUuid, generationNumber, updateTime, selfLocation,
\* previousGenerationLocation, allowPolicyUpdate, highestFileUid,
\* rootDirectory}, directories and files with name, uid, readonly flag,
\* times, extended attributes, and for a file length and extents.

El(tag, attr, text, kids) ==
    [tag |-> tag, attr |-> attr, text |-> text, kids |-> kids]

\* QXmlStreamWriter::writeTextElement
TextEl(tag, text) == El(tag, <<>>, text, <<>>)

DigitChars == <<"0", "1", "2", "3", "4", "5", "6", "7", "8", "9">>

\* QString::number
RECURSIVE Number(_)
Number(n) ==
    IF n < 10 THEN <<DigitChars[n + 1]>>
    ELSE Number(n \div 10) \o <<DigitChars[(n % 10) + 1]>>

\* QString::toULongLong / toLongLong: 0 for a text that is not a number
RECURSIVE toULongLong(_)
toULongLong(text) ==
    IF text = <<>> \/ \E k \in 1..Len(text) :
                          \A d \in 1..10 : DigitChars[d] # text[k]
    THEN 0
    ELSE LET last == CHOOSE d \in 0..9 : DigitChars[d + 1] = text[Len(text)]
         IN  IF Len(text) = 1 THEN last
             ELSE 10 * toULongLong(SubSeq(text, 1, Len(text) - 1)) + last

\* IndexWriter::formatPartition
formatPartition(partition) ==
    IF partition = IndexPartition THEN <<"a">> ELSE <<"b">>

\* IndexParser::parsePartition
parsePartition(text) ==
    IF text = <<"a">> \/ text = <<"0">> THEN IndexPartition
    ELSE DataPartition

\* IndexWriter::formatBoolean
formatBoolean(value) == IF value THEN <<"true">> ELSE <<"false">>

\* readElementText(xml).toLower() == "true"
parseBoolean(text) == text = <<"true">>

\* QDateTime::currentDateTimeUtc()
CurrentTime == [valid |-> TRUE, sec |-> 999, msec |-> 999]

NoTime == [valid |-> FALSE, sec |-> 0, msec |-> 0]

\* QDateTime::toString(Qt::ISODate) of a UTC time: the seconds, "Z"
toStringISODate(dt) == Number(dt.sec) \o <<"Z">>

\* IndexWriter::formatTimestamp: the seconds, ".zzz" when the milliseconds
\* are not 0, "Z"
formatTimestamp(dt) ==
    LET utc == IF dt.valid THEN dt ELSE CurrentTime
        zzz == IF utc.msec < 10 THEN <<"0", "0">> \o Number(utc.msec)
               ELSE IF utc.msec < 100 THEN <<"0">> \o Number(utc.msec)
               ELSE Number(utc.msec)
    IN  Number(utc.sec)
        \o (IF utc.msec > 0 THEN <<".">> \o zzz ELSE <<>>)
        \o <<"Z">>

\* IndexParser::parseTimestamp (Qt::ISODateWithMs): seconds, an optional
\* fraction, "Z"; the current time for a text that is no point in time
parseTimestamp(text) ==
    IF text = <<>> \/ text = <<"Z">> THEN CurrentTime
    ELSE LET body == IF text[Len(text)] = "Z"
                     THEN SubSeq(text, 1, Len(text) - 1) ELSE text
             dots == {k \in 1..Len(body) : body[k] = "."}
             dot  == IF dots = {} THEN Len(body) + 1
                     ELSE CHOOSE k \in dots : \A m \in dots : k <= m
         IN  [valid |-> TRUE,
              sec |-> toULongLong(SubSeq(body, 1, dot - 1)),
              msec |-> toULongLong(SubSeq(body, dot + 1, Len(body)))]

\* LocationData(), LtfsExtent(), ExtendedAttribute(), LtfsFile(),
\* LtfsDirectory(), LtfsIndex(): the objects the parser fills; p is the
\* partition of a LocationData that was never set
NewLocation(p) == [partition |-> p, startBlock |-> 0]

NewExtent ==
    [partition |-> IndexPartition, startBlock |-> 0, fileOffset |-> 0,
     byteOffset |-> 0, byteCount |-> 0]

NewAttribute == [key |-> <<>>, value |-> <<>>]

NewFile ==
    [name |-> <<>>, uid |-> 0, length |-> 0, readonly |-> FALSE,
     creationTime |-> NoTime, changeTime |-> NoTime, modifyTime |-> NoTime,
     accessTime |-> NoTime, backupTime |-> NoTime,
     extendedAttributes |-> <<>>, extentInfo |-> <<>>]

NewDirectory ==
    [name |-> <<>>, uid |-> 0, readonly |-> FALSE,
     creationTime |-> NoTime, changeTime |-> NoTime, modifyTime |-> NoTime,
     accessTime |-> NoTime, backupTime |-> NoTime,
     extendedAttributes |-> <<>>, files |-> <<>>, subdirectories |-> <<>>]

NewIndex(p) ==
    [version |-> <<>>, creator |-> <<>>, volumeUuid |-> <<>>,
     generationNumber |-> 0, updateTime |-> NoTime,
     selfLocation |-> NewLocation(p),
     previousGenerationLocation |-> NewLocation(p),
     allowPolicyUpdate |-> FALSE, highestFileUid |-> 0,
     rootDirectory |-> NewDirectory]

\* IndexWriter::writeLocation
writeLocation(elementName, location) ==
    El(elementName, <<>>, <<>>,
       << TextEl("partition", formatPartition(location.partition)),
          TextEl("startblock", Number(location.startBlock)) >>)

\* IndexWriter::writeExtent
writeExtent(extent) ==
    El("extent", <<>>, <<>>,
       << TextEl("partition", formatPartition(extent.partition)),
          TextEl("startblock", Number(extent.startBlock)),
          TextEl("fileoffset", Number(extent.fileOffset)),
          TextEl("byteoffset", Number(extent.byteOffset)),
          TextEl("bytecount", Number(extent.byteCount)) >>)

\* IndexWriter::writeExtendedAttribute
writeExtendedAttribute(attr) ==
    El("extendedattribute", <<>>, <<>>,
       << TextEl("key", attr.key), TextEl("value", attr.value) >>)

\* the elements directories and files have in common: name, uid when it is
\* not 0, for a file the length, readonly, the times (backuptime when it is
\* valid), the extended attributes
writeEntry(e, isFile) ==
    << TextEl("name", e.name) >>
    \o (IF e.uid > 0 THEN << TextEl("uid", Number(e.uid)) >> ELSE <<>>)
    \o (IF isFile THEN << TextEl("length", Number(e.length)) >> ELSE <<>>)
    \o << TextEl("readonly", formatBoolean(e.readonly)),
          TextEl("creationtime", formatTimestamp(e.creationTime)),
          TextEl("changetime", formatTimestamp(e.changeTime)),
          TextEl("modifytime", formatTimestamp(e.modifyTime)),
          TextEl("accesstime", formatTimestamp(e.accessTime)) >>
    \o (IF e.backupTime.valid
        THEN << TextEl("backuptime", formatTimestamp(e.backupTime)) >>
        ELSE <<>>)
    \o [k \in 1..Len(e.extendedAttributes) |->
           writeExtendedAttribute(e.extendedAttributes[k])]

\* IndexWriter::writeFile
writeFile(file) ==
    El("file", <<>>, <<>>,
       writeEntry(file, TRUE)
       \o (IF file.extentInfo = <<>> THEN <<>>
           ELSE << El("extentinfo", <<>>, <<>>,
                      [k \in 1..Len(file.extentInfo) |->
                          writeExtent(file.extentInfo[k])]) >>))

\* IndexWriter::writeDirectory
RECURSIVE writeDirectory(_)
writeDirectory(directory) ==
    El("directory", <<>>, <<>>,
       writeEntry(directory, FALSE)
       \o [k \in 1..Len(directory.files) |-> writeFile(directory.files[k])]
       \o [k \in 1..Len(directory.subdirectories) |->
              writeDirectory(directory.subdirectories[k])])

\* IndexWriter::writeIndex
writeIndex(index) ==
    El("ltfsindex",
       IF index.version = <<>> THEN <<"2.4.0">> ELSE index.version, <<>>,
       << TextEl("creator", index.creator),
          TextEl("volumeuuid", index.volumeUuid),
          TextEl("generationnumber", Number(index.generationNumber)),
          TextEl("updatetime", formatTimestamp(index.updateTime)),
          writeLocation("location", index.selfLocation) >>
       \o (IF index.previousGenerationLocation.startBlock > 0
           THEN << writeLocation("previousgenerationlocation",
                                 index.previousGenerationLocation) >>
           ELSE <<>>)
       \o << TextEl("allowpolicyupdate",
                    formatBoolean(index.allowPolicyUpdate)),
             TextEl("highestfileuid", Number(index.highestFileUid)),
             writeDirectory(index.rootDirectory) >>)

\* The parse functions read the elements in document order; an element
\* they do not know is passed over and its children are read in its place.

\* IndexParser::parseLocation
RECURSIVE parseLocation(_, _)
parseLocation(kids, location) ==
    IF kids = <<>> THEN location
    ELSE LET e == Head(kids) IN
         IF e.tag = "partition" THEN
             parseLocation(Tail(kids),
                 [location EXCEPT !.partition = parsePartition(e.text)])
         ELSE IF e.tag = "startblock" THEN
             parseLocation(Tail(kids),
                 [location EXCEPT !.startBlock = toULongLong(e.text)])
         ELSE parseLocation(e.kids \o Tail(kids), location)

\* IndexParser::parseExtent
RECURSIVE parseExtent(_, _)
parseExtent(kids, extent) ==
    IF kids = <<>> THEN extent
    ELSE LET e == Head(kids) IN
         IF e.tag = "partition" THEN
             parseExtent(Tail(kids),
                 [extent EXCEPT !.partition = parsePartition(e.text)])
         ELSE IF e.tag \in {"startblock", "fileoffset", "byteoffset",
                            "bytecount"} THEN
             parseExtent(Tail(kids),
                 [extent EXCEPT
                     !.startBlock = IF e.tag = "startblock"
                                    THEN toULongLong(e.text) ELSE @,
                     !.fileOffset = IF e.tag = "fileoffset"
                                    THEN toULongLong(e.text) ELSE @,
                     !.byteOffset = IF e.tag = "byteoffset"
                                    THEN toULongLong(e.text) ELSE @,
                     !.byteCount = IF e.tag = "bytecount"
                                   THEN toULongLong(e.text) ELSE @])
         ELSE parseExtent(e.kids \o Tail(kids), extent)

\* IndexParser::parseExtendedAttribute
RECURSIVE parseExtendedAttribute(_, _)
parseExtendedAttribute(kids, attr) ==
    IF kids = <<>> THEN attr
    ELSE LET e == Head(kids) IN
         IF e.tag = "key" THEN
             parseExtendedAttribute(Tail(kids), [attr EXCEPT !.key = e.text])
         ELSE IF e.tag = "value" THEN
             parseExtendedAttribute(Tail(kids),
                                    [attr EXCEPT !.value = e.text])
         ELSE parseExtendedAttribute(e.kids \o Tail(kids), attr)

\* the elements parseDirectory and parseFile read alike
EntryTags ==
    {"name", "readonly", "creationtime", "changetime", "modifytime",
     "accesstime", "backuptime", "uid", "extendedattribute"}

parseEntry(e, entry) ==
    IF e.tag = "name" THEN [entry EXCEPT !.name = e.text]
    ELSE IF e.tag = "readonly"
    THEN [entry EXCEPT !.readonly = parseBoolean(e.text)]
    ELSE IF e.tag = "creationtime"
    THEN [entry EXCEPT !.creationTime = parseTimestamp(e.text)]
    ELSE IF e.tag = "changetime"
    THEN [entry EXCEPT !.changeTime = parseTimestamp(e.text)]
    ELSE IF e.tag = "modifytime"
    THEN [entry EXCEPT !.modifyTime = parseTimestamp(e.text)]
    ELSE IF e.tag = "accesstime"
    THEN [entry EXCEPT !.accessTime = parseTimestamp(e.text)]
    ELSE IF e.tag = "backuptime"
    THEN [entry EXCEPT !.backupTime = parseTimestamp(e.text)]
    ELSE IF e.tag = "uid" THEN [entry EXCEPT !.uid = toULongLong(e.text)]
    ELSE [entry EXCEPT
             !.extendedAttributes =
                 Append(@, parseExtendedAttribute(e.kids, NewAttribute))]

\* IndexParser::parseFile; extentinfo is a container, its extents are read
\* as they come
RECURSIVE parseFile(_, _)
parseFile(kids, file) ==
    IF kids = <<>> THEN file
    ELSE LET e == Head(kids) IN
         IF e.tag \in EntryTags
         THEN parseFile(Tail(kids), parseEntry(e, file))
         ELSE IF e.tag = "length" THEN
             parseFile(Tail(kids),
                       [file EXCEPT !.length = toULongLong(e.text)])
         ELSE IF e.tag = "extent" THEN
             parseFile(Tail(kids),
                 [file EXCEPT
                     !.extentInfo = Append(@, parseExtent(e.kids, NewExtent))])
         ELSE parseFile(e.kids \o Tail(kids), file)

\* IndexParser::parseDirectory
RECURSIVE parseDirectory(_, _)
parseDirectory(kids, directory) ==
    IF kids = <<>> THEN directory
    ELSE LET e == Head(kids) IN
         IF e.tag \in EntryTags
         THEN parseDirectory(Tail(kids), parseEntry(e, directory))
         ELSE IF e.tag = "file" THEN
             parseDirectory(Tail(kids),
                 [directory EXCEPT
                     !.files = Append(@, parseFile(e.kids, NewFile))])
         ELSE IF e.tag = "directory" THEN
             parseDirectory(Tail(kids),
                 [directory EXCEPT
                     !.subdirectories =
                         Append(@, parseDirectory(e.kids, NewDirectory))])
         ELSE parseDirectory(e.kids \o Tail(kids), directory)

\* IndexParser::parseIndex; p: the partition of a LocationData never set
RECURSIVE parseIndex(_, _, _)
parseIndex(kids, index, p) ==
    IF kids = <<>> THEN index
    ELSE LET e == Head(kids) IN
         IF e.tag = "creator"
         THEN parseIndex(Tail(kids), [index EXCEPT !.creator = e.text], p)
         ELSE IF e.tag = "volumeuuid"
         THEN parseIndex(Tail(kids), [index EXCEPT !.volumeUuid = e.text], p)
         ELSE IF e.tag = "generationnumber"
         THEN parseIndex(Tail(kids),
                  [index EXCEPT !.generationNumber = toULongLong(e.text)], p)
         ELSE IF e.tag = "updatetime"
         THEN parseIndex(Tail(kids),
                  [index EXCEPT !.updateTime = parseTimestamp(e.text)], p)
         ELSE IF e.tag = "location"
         THEN parseIndex(Tail(kids),
                  [index EXCEPT
                      !.selfLocation = parseLocation(e.kids, NewLocation(p))],
                  p)
         ELSE IF e.tag = "previousgenerationlocation"
         THEN parseIndex(Tail(kids),
                  [index EXCEPT
                      !.previousGenerationLocation =
                          parseLocation(e.kids, NewLocation(p))], p)
         ELSE IF e.tag = "allowpolicyupdate"
         THEN parseIndex(Tail(kids),
                  [index EXCEPT !.allowPolicyUpdate = parseBoolean(e.text)],
                  p)
         ELSE IF e.tag = "highestfileuid"
         THEN parseIndex(Tail(kids),
                  [index EXCEPT !.highestFileUid = toULongLong(e.text)], p)
         ELSE IF e.tag = "directory"
         THEN parseIndex(Tail(kids),
                  [index EXCEPT
                      !.rootDirectory = parseDirectory(e.kids, NewDirectory)],
                  p)
         ELSE parseIndex(e.kids \o Tail(kids), index, p)

\* IndexParser::parse: the ltfsindex element with its version attribute
parse(doc, p) ==
    IF doc.tag = "ltfsindex"
    THEN parseIndex(doc.kids, [NewIndex(p) EXCEPT !.version = doc.attr], p)
    ELSE NewIndex(p)

\* QCoreApplication::applicationName
ProductName == "QLTOTapeMan"

\* the index document formatForLtfs writes behind the labels of the index
\* partition (the literal of TapeDevice.cpp with the volume uuid of the
\* label and the current time put in)
InitialIndexDocument ==
    LET now == toStringISODate(CurrentTime) IN
    El("ltfsindex", <<"2.4.0">>, <<>>,
       << TextEl("creator", <<"QLTOTapeMan">>),
          TextEl("volumeuuid", <<"0f1e2d3c">>),
          TextEl("generationnumber", <<"1">>),
          TextEl("updatetime", now),
          El("location", <<>>, <<>>,
             << TextEl("partition", <<"a">>),
                TextEl("startblock", <<"0">>) >>),
          TextEl("allowpolicyupdate", <<"true">>),
          El("directory", <<>>, <<>>,
             << TextEl("name", <<"/">>),
                TextEl("readonly", <<"false">>),
                TextEl("creationtime", now),
                TextEl("changetime", now),
                TextEl("modifytime", now),
                TextEl("accesstime", now) >>) >>)

\* The indexes the codec is applied to: generation numbers, locations in
\* either partition at block 0 and beyond, times with and without
\* milliseconds, an empty root and a root with two files (one of two extents
\* out of offset order, one with extended attributes and uid 0) and a
\* subdirectory holding a file.
TimeOf(s, ms) == [valid |-> TRUE, sec |-> s, msec |-> ms]

TimesTried == {TimeOf(1700, 0), TimeOf(1700, 7), TimeOf(86400, 120)}

ExtentOf(part, blk, off, cnt) ==
    [partition |-> part, startBlock |-> blk, fileOffset |-> off,
     byteOffset |-> 0, byteCount |-> cnt]

FileOf(nm, id, len, tm, attrs, extents) ==
    [name |-> <<nm>>, uid |-> id, length |-> len, readonly |-> id = 0,
     creationTime |-> TimeOf(1600, 1), changeTime |-> TimeOf(1601, 20),
     modifyTime |-> tm, accessTime |-> TimeOf(1603, 0),
     backupTime |-> TimeOf(1604, 999),
     extendedAttributes |-> attrs, extentInfo |-> extents]

DirectoryOf(nm, id, tm, fs, ds) ==
    [name |-> <<nm>>, uid |-> id, readonly |-> FALSE,
     creationTime |-> tm, changeTime |-> TimeOf(1611, 0),
     modifyTime |-> TimeOf(1612, 500), accessTime |-> TimeOf(1613, 45),
     backupTime |-> IF ds = <<>> THEN NoTime ELSE TimeOf(1614, 3),
     extendedAttributes |->
         IF ds = <<>> THEN <<>>
         ELSE << [key |-> <<"user.tag">>, value |-> <<"x", "y">>] >>,
     files |-> fs, subdirectories |-> ds]

RootsTried(tm) ==
    { DirectoryOf("/", 1, tm, <<>>, <<>>),
      DirectoryOf("/", 1, tm,
          << FileOf("two.bin", 3, 1500, tm, <<>>,
                    << ExtentOf(DataPartition, 40, 1000, 500),
                       ExtentOf(DataPartition, 12, 0, 1000) >>),
             FileOf("one.txt", 0, 0, tm,
                    << [key |-> <<"k2">>, value |-> <<"v">>],
                       [key |-> <<"k1">>, value |-> <<>>] >>,
                    <<>>) >>,
          << DirectoryOf("sub", 0, tm,
                 << FileOf("in.dat", 4, 10, tm, <<>>,
                           << ExtentOf(IndexPartition, 9, 0, 10) >>) >>,
                 <<>>) >>) }

LocationsTried == [partition : 0..1, startBlock : {0, 25}]

IndexesTried ==
    { [version |-> <<"2.4.0">>, creator |-> <<"QLTOTapeMan">>,
       volumeUuid |-> <<"0f1e2d3c">>, generationNumber |-> g,
       updateTime |-> tm, selfLocation |-> [partition |-> sp,
                                            startBlock |-> 5 + 25 * sp],
       previousGenerationLocation |-> prev,
       allowPolicyUpdate |-> g = 1, highestFileUid |-> 4,
       rootDirectory |-> root] :
      g \in {1, 12}, tm \in TimesTried, sp \in 0..1, prev \in LocationsTried,
      root \in UNION {RootsTried(x) : x \in TimesTried} }

\* IndexWriter::write(index): index -> document
Write ==
    /\ xml.stage = "new"
    /\ xml' = [xml EXCEPT !.stage = "written", !.doc = writeIndex(xml.index)]
    /\ UNCHANGED <<io, th, dev, drv, rd, obs, bm, scsi>>

\* IndexParser::parse(xmlData): document -> index
Parse ==
    /\ xml.stage = "written"
    /\ xml' = [xml EXCEPT !.stage = "parsed",
                          !.out = parse(xml.doc, xml.defaultPartition)]
    /\ UNCHANGED <<io, th, dev, drv, rd, obs, bm, scsi>>

\* ------------------------------------------------ BlockManager: functions
\* thread t calls function nm with argument x
BmCall(t, nm, x) ==
    [bm EXCEPT !.calls = @ + 1,
               !.last = [op |-> nm, a |-> x, ret |-> 0, t |-> t,
                         pre |-> Tracker(bm)]]

BmReady(t) == bm.pc[t] = "idle" /\ bm.calls < MaxBmCalls

BmOnly == UNCHANGED <<io, th, dev, drv, rd, obs, xml, scsi>>

\* BlockManager::setBlockSize
SetBlockSize(t) ==
    /\ BmReady(t)
    /\ \E size \in SizesTried :
          bm' = IF ~isValidBlockSize(size)
                THEN BmCall(t, "setBlockSize", size)
                ELSE [BmCall(t, "setBlockSize", size) EXCEPT
                         !.blockSize = size, !.last.ret = 1]
    /\ BmOnly

\* BlockManager::setPartition
SetPartition(t) ==
    /\ BmReady(t)
    /\ \E p \in 0..1 :
          bm' = [BmCall(t, "setPartition", p) EXCEPT !.currentPartition = p]
    /\ BmOnly

\* BlockManager::advanceBlocks
AdvanceBlocks(t) ==
    /\ BmReady(t)
    /\ bm' = [BmCall(t, "advanceBlocks", 1) EXCEPT !.currentBlock = @ + 1]
    /\ BmOnly

\* the new extent of beginExtent, at the current block and partition
beginNew(b, t) ==
    [b EXCEPT !.currentExtent =
                  [BlockAllocation EXCEPT !.startBlock = b.currentBlock,
                                          !.partition = b.currentPartition],
              !.extentActive = TRUE,
              !.last.ret = Len(b.extents),
              !.pc[t] = "idle",
              !.begunOpen = TRUE]

\* BlockManager::beginExtent up to its return or, an extent being active,
\* to locker.unlock()
BeginExtent(t) ==
    /\ BmReady(t)
    /\ bm' = IF bm.extentActive
             THEN [BmCall(t, "beginExtent", 0) EXCEPT !.pc[t] = "unlocked"]
             ELSE beginNew(BmCall(t, "beginExtent", 0), t)
    /\ BmOnly

\* a variant of endExtent that appends the current extent, active or not
endExtentAlways(b) ==
    [b EXCEPT !.extents = Append(@, b.currentExtent),
              !.extentActive = FALSE,
              !.currentExtent = BlockAllocation]

\* BlockManager::endExtent
endExtent(b) ==
    IF b.extentActive
    THEN [b EXCEPT !.extents = Append(@, b.currentExtent),
                   !.extentActive = FALSE,
                   !.currentExtent = BlockAllocation]
    ELSE b

\* beginExtent: its call of endExtent(), the mutex not held around it
BeginExtentEnd(t) ==
    /\ bm.pc[t] = "unlocked"
    /\ bm' = [endExtent(bm) EXCEPT !.pc[t] = "relock"]
    /\ BmOnly

\* beginExtent from locker.relock() on
BeginExtentRelock(t) ==
    /\ bm.pc[t] = "relock"
    /\ bm' = beginNew(bm, t)
    /\ BmOnly

\* BlockManager::addToExtent
AddToExtent(t) ==
    /\ BmReady(t)
    /\ \E n \in 1..2 :
          LET b == [BmCall(t, "addToExtent", n) EXCEPT
                       !.offered = IF bm.begunOpen THEN @ + n ELSE @]
          IN  bm' = IF ~bm.extentActive THEN b
                    ELSE [b EXCEPT !.currentExtent.blockCount = @ + n,
                                   !.currentExtent.byteCount =
                                       @ + n * bm.blockSize,
                                   !.currentBlock = @ + n,
                                   !.totalBlocksWritten = @ + n,
                                   !.totalBytesWritten =
                                       @ + n * bm.blockSize]
    /\ BmOnly

\* BlockManager::endExtent called by thread t
EndExtent(t) ==
    /\ BmReady(t)
    /\ bm' = [endExtent(BmCall(t, "endExtent", 0)) EXCEPT
                 !.begunOpen = FALSE]
    /\ BmOnly

\* BlockManager::clearExtents
ClearExtents(t) ==
    /\ BmReady(t)
    /\ bm' = [BmCall(t, "clearExtents", 0) EXCEPT
                 !.extents = <<>>, !.extentActive = FALSE,
                 !.currentExtent = BlockAllocation,
                 !.begunOpen = FALSE, !.offered = 0]
    /\ BmOnly

Step(t) ==
    \/ PqNext(t) \/ PqStart(t) \/ PqEnd(t)
    \/ WfOpen(t) \/ WfLocateDone(t) \/ WfSpaceDone(t)
    \/ WfLoop(t) \/ WfSleep(t) \/ WfPause(t)
    \/ WfWrite(t) \/ WfWriteDone(t) \/ WfFmDone(t)

\* the write run under the whole control API, the drive never failing
Next ==
    \/ AddFile \/ OpenDevice
    \/ StartWrite("w")
    \/ Pause \/ Resume \/ Cancel
    \/ \E t \in Threads : Step(t)

Spec == Init /\ [][Next]_vars

\* the write run under scheduling that lets every thread in processQueue
\* take its next step (every device command and file read returns, every
\* sleep ends) and follows every pause() by resume() or cancel()
Unpause == io.paused /\ (Resume \/ Cancel)

FairRun ==
    /\ \A t \in Threads : WF_vars(Step(t))
    /\ WF_vars(Unpause)

\* the queue of the runs followed to their end: directories and at most
\* one file
Prepare ==
    \/ OpenDevice
    \/ AddDirectory
    \/ (\A k \in 1..Len(io.queue) : io.queue[k].isDirectory) /\ AddFile

NextLive ==
    \/ Prepare
    \/ StartWrite("w")
    \/ Pause \/ Resume \/ Cancel
    \/ \E t \in Threads : Step(t)

SpecLive == Init /\ [][NextLive]_vars /\ FairRun

\* the write run on one executor, with failures of the drive and the files
NextFaults ==
    \/ AddFile \/ AddDirectory \/ SetOptions \/ SetIndex \/ OpenDevice
    \/ InjectFault
    \/ StartWrite("w")
    \/ Pause \/ Cancel
    \/ Step("w") \/ TurDone("w") \/ Tur2Done("w")

SpecFaults == Init /\ [][NextFaults]_vars

\* readFiles from a written cartridge
InitRead ==
    /\ InitProgram
    /\ \E c \in ReadCartridges :
          drv = NewDrive([p \in 0..1 |-> IF p = DataPartition THEN c ELSE <<>>])
    /\ bm = NewBlockManager(DEFAULT_BLOCK_SIZE)
    /\ xml = NoCodec
    /\ scsi = NoScsi

NextRead ==
    \/ SetOptions \/ OpenDevice \/ InjectFault \/ DeviceLocate
    \/ Cancel
    \/ ReadFiles("w") \/ RfNext("w") \/ RfLoop("w") \/ RfReadDone("w")

SpecRead == InitRead /\ [][NextRead]_vars

\* startWrite called from either thread, also while a run is executing; no
\* resume, so one executor at a time
NextStart ==
    \/ AddFile \/ AddDirectory \/ OpenDevice
    \/ \E t \in Threads : StartWrite(t)
    \/ Pause \/ Cancel
    \/ \E t \in Threads : Step(t)

SpecStart == Init /\ [][NextStart]_vars

\* the device controller called directly, operation by operation, on a drive
\* whose commands may fail
NextDev ==
    \/ OpenDevice \/ OpenFails \/ Close
    \/ SeekToBeginning \/ SeekToEnd
    \/ RefreshStatus \/ Load \/ Unload \/ Rewind \/ Locate
    \/ SpaceBlocks \/ SpaceFilemarks \/ SpaceToEndOfData
    \/ ReadBlock \/ WriteBlock \/ WriteFilemark
    \/ ReadLabel \/ WriteLabel \/ FormatForLtfs
    \/ DevOp \/ DevTur \/ DevTur2

SpecDev == Init /\ [][NextDev]_vars

\* the block manager used by one thread, constructed with any block size
InitExtent ==
    /\ InitProgram
    /\ drv = NewDrive([p \in 0..1 |-> <<>>])
    /\ \E size \in SizesTried : bm = NewBlockManager(size)
    /\ xml = NoCodec
    /\ scsi = NoScsi

NextExtent ==
    \/ SetBlockSize("w") \/ SetPartition("w") \/ AdvanceBlocks("w")
    \/ BeginExtent("w") \/ BeginExtentEnd("w") \/ BeginExtentRelock("w")
    \/ AddToExtent("w") \/ EndExtent("w") \/ ClearExtents("w")

SpecExtent == InitExtent /\ [][NextExtent]_vars

\* the extent functions of one block manager called by two threads
NextExtent2 ==
    \E t \in Threads :
        \/ BeginExtent(t) \/ BeginExtentEnd(t) \/ BeginExtentRelock(t)
        \/ AddToExtent(t) \/ EndExtent(t)

SpecExtent2 == Init /\ [][NextExtent2]_vars

\* the index codec applied to the indexes tried: written, then parsed back
InitCodec ==
    /\ InitProgram
    /\ drv = NewDrive([p \in 0..1 |-> <<>>])
    /\ bm = NewBlockManager(DEFAULT_BLOCK_SIZE)
    /\ \E index \in IndexesTried, p \in 0..1 :
           xml = [stage |-> "new", defaultPartition |-> p, index |-> index,
                  doc |-> El("", <<>>, <<>>, <<>>), out |-> NewIndex(p)]
    /\ scsi = NoScsi

NextCodec == Write \/ Parse

SpecCodec == InitCodec /\ [][NextCodec]_vars

\* ------------------------------------------------- ScsiCommand: sense data
\* A byte array is a sequence of bytes; byte i of the source (counted from
\* 0) is element i + 1.

\* ScsiSenseData(): not valid, NoSense, 0, 0
NewSense ==
    [valid |-> FALSE, senseKey |-> 0, information |-> 0,
     additionalSenseCode |-> 0, additionalSenseCodeQualifier |-> 0]

\* bytes[i] through constData(); a read at the end of the array gives the
\* terminating 0 of an array that owns its bytes and whatever lies there
\* of one made over foreign memory (QByteArray::fromRawData)
ByteAt(data, i, beyond) == IF i < Len(data) THEN data[i + 1] ELSE beyond

\* a variant of fromRawData that takes bytes 12 and 13 whatever the
\* additional length says
fromRawDataAnyLength(data, beyond) ==
    IF Len(data) < 8 THEN [sense |-> NewSense, reads |-> {}]
    ELSE IF data[1] % 128 \in {112, 113} THEN
        [sense |->
            [valid |-> TRUE, senseKey |-> data[3] % 16,
             information |-> data[4] * 16777216 + data[5] * 65536
                             + data[6] * 256 + data[7],
             additionalSenseCode |->
                 IF Len(data) >= 13 THEN data[13] ELSE 0,
             additionalSenseCodeQualifier |->
                 IF Len(data) >= 13 THEN ByteAt(data, 13, beyond) ELSE 0],
         reads |-> {0, 2, 3, 4, 5, 6, 7}
                   \cup (IF Len(data) >= 13 THEN {12, 13} ELSE {})]
    ELSE IF data[1] % 128 \in {114, 115} THEN
        [sense |->
            [valid |-> TRUE, senseKey |-> data[2] % 16, information |-> 0,
             additionalSenseCode |-> data[3],
             additionalSenseCodeQualifier |-> data[4]],
         reads |-> {0, 1, 2, 3}]
    ELSE [sense |-> NewSense, reads |-> {0}]

\* ScsiSenseData::fromRawData: the sense data parsed from data and the
\* indices of the bytes it read.  Fixed format (response code 0x70, 0x71):
\* key from byte 2, information from bytes 3..6, ASC and ASCQ from bytes 12
\* and 13 when data.size() >= 13 and byte 7 >= 6.  Descriptor format (0x72,
\* 0x73): key from byte 1, ASC and ASCQ from bytes 2 and 3.
fromRawData(data, beyond) ==
    IF Len(data) < 8 THEN [sense |-> NewSense, reads |-> {}]
    ELSE IF data[1] % 128 \in {112, 113} THEN
        [sense |->
            [valid |-> TRUE, senseKey |-> data[3] % 16,
             information |-> data[4] * 16777216 + data[5] * 65536
                             + data[6] * 256 + data[7],
             additionalSenseCode |->
                 IF Len(data) >= 13 /\ data[8] >= 6 THEN data[13] ELSE 0,
             additionalSenseCodeQualifier |->
                 IF Len(data) >= 13 /\ data[8] >= 6
                 THEN ByteAt(data, 13, beyond) ELSE 0],
         reads |-> {0, 2, 3, 4, 5, 6, 7}
                   \cup (IF Len(data) >= 13 /\ data[8] >= 6
                         THEN {12, 13} ELSE {})]
    ELSE IF data[1] % 128 \in {114, 115} THEN
        [sense |->
            [valid |-> TRUE, senseKey |-> data[2] % 16, information |-> 0,
             additionalSenseCode |-> data[3],
             additionalSenseCodeQualifier |-> data[4]],
         reads |-> {0, 1, 2, 3}]
    ELSE [sense |-> NewSense, reads |-> {0}]

\* the responses parsed: lengths around 8, 13 and 14, the response codes
\* with and without the top bit, keys, additional lengths around 6
SenseLengths == {0, 7, 8, 12, 13, 14, 18}

SenseBytes(len, b0, b1, b2, b7, b12) ==
    [i \in 1..len |->
        IF i = 1 THEN b0 ELSE IF i = 2 THEN b1 ELSE IF i = 3 THEN b2
        ELSE IF i = 4 THEN 127 ELSE IF i = 8 THEN b7
        ELSE IF i = 13 THEN b12 ELSE IF i = 14 THEN 58 ELSE i]

ResponsesTried ==
    { SenseBytes(len, b0, b1, b2, b7, b12) :
        len \in SenseLengths,
        b0 \in {0, 112, 113, 114, 115, 116, 127, 240, 243},
        b1 \in {3, 245}, b2 \in {3, 72}, b7 \in {0, 5, 6, 10},
        b12 \in {0, 17} }

\* ScsiSenseData::fromRawData(data) called
FromRawData ==
    /\ scsi.stage = "response"
    /\ \E beyond \in {0, 255} :
          scsi' = [scsi EXCEPT
                      !.stage = "parsed",
                      !.sense = fromRawData(scsi.data, beyond).sense,
                      !.reads = fromRawData(scsi.data, beyond).reads]
    /\ UNCHANGED <<io, th, dev, drv, rd, obs, bm, xml>>

\* sense parsing applied to the responses tried
InitSense ==
    /\ InitProgram
    /\ drv = NewDrive([p \in 0..1 |-> <<>>])
    /\ bm = NewBlockManager(DEFAULT_BLOCK_SIZE)
    /\ xml = NoCodec
    /\ \E data \in ResponsesTried :
           scsi = [stage |-> "response", data |-> data, sense |-> NewSense,
                   reads |-> {}]

NextSense == FromRawData

SpecSense == InitSense /\ [][NextSense]_vars

\* ---------------------------------------------- ScsiCommand: command blocks
\* A quint32 or qint32 is an integer, a quint64 the sequence of its four
\* 16-bit words, the highest first.

\* static_cast<char>((v >> 16) & 0xFF), ((v >> 8) & 0xFF), (v & 0xFF)
Byte2(v) == (v \div 65536) % 256

Byte1(v) == (v \div 256) % 256

Byte0(v) == v % 256

\* what a builder hands to Private::execute
Command(cdb, direction, dataLength) ==
    [cdb |-> cdb, direction |-> direction, dataLength |-> dataLength]

\* ScsiCommand::locate16
locate16(partition, blockNumber) ==
    Command(<<146, 2, 0, partition,
              Byte1(blockNumber[1]), Byte0(blockNumber[1]),
              Byte1(blockNumber[2]), Byte0(blockNumber[2]),
              Byte1(blockNumber[3]), Byte0(blockNumber[3]),
              Byte1(blockNumber[4]), Byte0(blockNumber[4]),
              0, 0, 0, 0>>, "None", 0)

\* ScsiCommand::space: the code cut to three bits, the count to 24
space(code, count) ==
    Command(<<17, code % 8, Byte2(count), Byte1(count), Byte0(count), 0>>,
            "None", 0)

\* ScsiCommand::read6: the transfer length is blockCount, the data length
\* the size of the buffer
read6(bufferSize, blockCount, fixedBlock) ==
    Command(<<8, IF fixedBlock THEN 1 ELSE 0,
              Byte2(blockCount), Byte1(blockCount), Byte0(blockCount), 0>>,
            "FromDevice", bufferSize)

\* ScsiCommand::write6: the transfer length is data.size() in both modes
write6(size, fixedBlock) ==
    Command(<<10, IF fixedBlock THEN 1 ELSE 0,
              Byte2(size), Byte1(size), Byte0(size), 0>>, "ToDevice", size)

\* ScsiCommand::writeFilemark
writeFilemarkCommand(count, setMark, immediate) ==
    Command(<<16, (IF immediate THEN 1 ELSE 0) + (IF setMark THEN 2 ELSE 0),
              Byte2(count), Byte1(count), Byte0(count), 0>>, "None", 0)

\* the commands of TapeDevice::readBlock, writeBlock, readBlocks and
\* writeBlocks
readBlockCommand(maxSize) == read6(maxSize, 1, FALSE)

writeBlockCommand(size) == write6(size, FALSE)

readBlocksCommand(blockCount, blockSize) ==
    read6(blockCount * blockSize, blockCount, TRUE)

writeBlocksCommand(size, blockSize) == write6(size, TRUE)

\* the fields of a command block read back: big-endian, the count of SPACE
\* in two's complement
TransferLength(cdb) == cdb[3] * 65536 + cdb[4] * 256 + cdb[5]

SignedCount(cdb) ==
    IF TransferLength(cdb) >= 8388608 THEN TransferLength(cdb) - 16777216
    ELSE TransferLength(cdb)

BlockNumber(cdb) ==
    << cdb[5] * 256 + cdb[6], cdb[7] * 256 + cdb[8],
       cdb[9] * 256 + cdb[10], cdb[11] * 256 + cdb[12] >>

\* the parameter values tried: around the 24 bits of a count, the three
\* bits of a code and the ends of the types
CountsTried == {0, 1, 65536, 16777215, 16777216, 16777217, 2147483647}

SignedCountsTried == {-8388609, -8388608, -1, 0, 1, 8388607, 8388608}

CodesTried == {0, 1, 3, 8, 255}

BlockNumbersTried ==
    { <<0, 0, 0, 0>>, <<0, 0, 0, 1>>, <<0, 0, 1, 0>>, <<0, 1, 65535, 65535>>,
      <<4660, 22136, 37035, 52719>>, <<65535, 65535, 65535, 65535>> }

TransferSizesTried == {80, 512, 65536, 524288}

BlockSizesTried == {512, 65536}

RawLengths == {6, 16, 17, 262}

\* a command block of len bytes whose first six are TEST UNIT READY
RawCdb(len) == [i \in 1..len |-> 0]

NoResult == [success |-> FALSE, status |-> "none"]

\* a builder or executeRaw called: the command goes to Private::execute
Built(call, c) ==
    /\ scsi.stage = "idle"
    /\ scsi' = [scsi EXCEPT !.stage = "execute", !.call = call, !.cmd = c]
    /\ UNCHANGED <<io, th, dev, drv, rd, obs, bm, xml>>

Locate16 ==
    \E partition \in {0, 1, 255}, blockNumber \in BlockNumbersTried :
        Built([op |-> "locate16", partition |-> partition,
               blockNumber |-> blockNumber],
              locate16(partition, blockNumber))

Space ==
    \E code \in CodesTried, count \in SignedCountsTried :
        Built([op |-> "space", code |-> code, count |-> count],
              space(code, count))

Read6 ==
    \E blockCount \in CountsTried, fixedBlock \in BOOLEAN :
        Built([op |-> "read6", count |-> blockCount, fixed |-> fixedBlock],
              read6(BlockSize, blockCount, fixedBlock))

Write6 ==
    \E size \in CountsTried, fixedBlock \in BOOLEAN :
        Built([op |-> "write6", count |-> size, fixed |-> fixedBlock],
              write6(size, fixedBlock))

WriteFilemarkCommand ==
    \E count \in CountsTried :
        Built([op |-> "writeFilemark", count |-> count],
              writeFilemarkCommand(count, FALSE, FALSE))

ReadBlockCommand ==
    \E maxSize \in TransferSizesTried :
        Built([op |-> "readBlock", size |-> maxSize],
              readBlockCommand(maxSize))

WriteBlockCommand ==
    \E size \in TransferSizesTried :
        Built([op |-> "writeBlock", size |-> size], writeBlockCommand(size))

ReadBlocksCommand ==
    \E blockCount \in {1, 8}, blockSize \in BlockSizesTried :
        Built([op |-> "readBlocks", count |-> blockCount,
               blockSize |-> blockSize],
              readBlocksCommand(blockCount, blockSize))

WriteBlocksCommand ==
    \E size \in TransferSizesTried, blockSize \in BlockSizesTried :
        /\ size % blockSize = 0
        /\ Built([op |-> "writeBlocks", size |-> size,
                  blockSize |-> blockSize],
                 writeBlocksCommand(size, blockSize))

\* ScsiCommand::executeRaw
ExecuteRaw ==
    \E len \in RawLengths :
        Built([op |-> "executeRaw", length |-> len],
              Command(RawCdb(len), "None", 0))

\* ioctl(fd, SG_IO, &io_hdr): cmd_len is an unsigned char and the driver
\* takes the first cmd_len bytes at cmdp; the call fails, or the command
\* reaches the device and ends with or without a check condition
Ioctl(s, cdb, cmdLen, outcome) ==
    [s EXCEPT
        !.stage = "done",
        !.ioctls = Append(@, cmdLen),
        !.device = IF outcome = "failed" THEN @
                   ELSE Append(@, SubSeq(cdb, 1, cmdLen)),
        !.result = [success |-> outcome = "good", status |-> outcome]]

IoctlOutcomes == {"failed", "good", "check"}

\* ScsiCommand::Private::execute (the SG_IO branch): fails when the device
\* is not open, else hands the command block to the driver with
\* cmd_len = static_cast<unsigned char>(cdb.size())
PrivateExecute ==
    /\ scsi.stage = "execute"
    /\ IF ~scsi.open
       THEN scsi' = [scsi EXCEPT !.stage = "done", !.result = NoResult]
       ELSE \E outcome \in IoctlOutcomes :
               scsi' = Ioctl(scsi, scsi.cmd.cdb, Len(scsi.cmd.cdb) % 256,
                             outcome)
    /\ UNCHANGED <<io, th, dev, drv, rd, obs, bm, xml>>

\* LinuxScsi::executeCommand: fails when the device is not open or
\* cdbLength > 16
ExecuteCommand ==
    /\ scsi.stage = "idle"
    /\ \E len \in RawLengths :
          LET s1 == [scsi EXCEPT
                        !.call = [op |-> "executeCommand", length |-> len],
                        !.cmd = Command(RawCdb(len), "None", 0)]
          IN IF ~scsi.open \/ len > 16
             THEN scsi' = [s1 EXCEPT !.stage = "done", !.result = NoResult]
             ELSE \E outcome \in IoctlOutcomes :
                     scsi' = Ioctl(s1, RawCdb(len), len % 256, outcome)
    /\ UNCHANGED <<io, th, dev, drv, rd, obs, bm, xml>>

\* the command layer with its device open or closed and no call made
InitCdb ==
    /\ InitProgram
    /\ drv = NewDrive([p \in 0..1 |-> <<>>])
    /\ bm = NewBlockManager(DEFAULT_BLOCK_SIZE)
    /\ xml = NoCodec
    /\ \E open \in BOOLEAN :
           scsi = [stage |-> "idle", open |-> open,
                   call |-> [op |-> "none"],
                   cmd |-> Command(<<>>, "None", 0),
                   ioctls |-> <<>>, device |-> <<>>, result |-> NoResult]

NextCdb ==
    \/ Locate16 \/ Space \/ Read6 \/ Write6 \/ WriteFilemarkCommand
    \/ ReadBlockCommand \/ WriteBlockCommand \/ ReadBlocksCommand
    \/ WriteBlocksCommand \/ ExecuteRaw \/ PrivateExecute \/ ExecuteCommand

SpecCdb == InitCdb /\ [][NextCdb]_vars

\* ------------------------------------------------------------- properties
Items == 1..Len(io.queue)

\* how often item k was started (fileStarted emitted for it)
Starts(k) == Cardinality({n \in 1..Len(obs.startLog) : obs.startLog[n] = k})

RunOver == obs.runs > 0 /\ ~io.running /\ Quiet

\* C1: while a run started by startWrite() executes and the control thread
\* calls pause(), resume() and cancel(), at most one execution of the
\* queue-processing loop is active, at most one queue item is InProgress and
\* at most one device command is outstanding on the drive.
C1_SingleExecutor ==
    /\ Cardinality({t \in Threads : th[t].pc # "idle"}) <= 1
    /\ Cardinality(InProgressSet) <= 1
    /\ Cardinality({t \in Threads : drv.inflight[t] # NoCmd}) <= 1

\* C2: a file item that was InProgress (no filemark issued yet) when cancel()
\* was invoked and that no failure ended ends Cancelled, its bytesTransferred
\* is the total of the whole chunks written, and no WRITE FILEMARKS is issued
\* for it.
C2_CancelledItem ==
    \A k \in Items :
        obs.cancelDuring[k] /\ ~io.queue[k].isDirectory
        /\ io.queue[k].status \in {"Completed", "Cancelled"} =>
            /\ io.queue[k].status = "Cancelled"
            /\ io.queue[k].bytesTransferred = obs.wrote[k]
            /\ ~obs.fmSent[k]

\* C3: after a file item completes while an index is attached, the index
\* holds a file entry for it with exactly one extent {data partition,
\* startBlock = recorded start, fileOffset 0, byteCount = size} and, when a
\* source hash was captured, the hash as extended attribute.
C3_IndexEntry ==
    \A k \in Items :
        io.index.attached /\ ~io.queue[k].isDirectory
        /\ io.queue[k].status = "Completed" =>
            \E n \in 1..Len(io.index.files) :
                LET f == io.index.files[n] IN
                /\ f.name = io.queue[k].name
                /\ f.extents = << [partition |-> DataPartition,
                                   startBlock |-> obs.recStart[k],
                                   byteOffset |-> 0,
                                   byteCount |-> io.queue[k].size,
                                   fileOffset |-> 0] >>
                /\ io.queue[k].sourceHash # <<>> =>
                       f.xattrs = <<io.queue[k].sourceHash>>

\* C4: the start block recorded for a written file (the controller's
\* position after the seek to end of data) is the block at which the drive
\* writes the file's first block; of two files written one after the other
\* the second one's recorded start block is the greater.
C4_RecordedStart ==
    /\ \A k \in Items :
          obs.firstBlk[k] >= 0 => obs.recStart[k] = obs.firstBlk[k]
    /\ \A k1, k2 \in Items :
          k1 < k2 /\ obs.firstBlk[k1] >= 0 /\ obs.firstBlk[k2] >= 0 =>
              obs.recStart[k2] > obs.recStart[k1]

\* C5: for every file item that ends Completed the commands issued for it
\* are, in order, LOCATE(data partition, 0), SPACE to end of data, one WRITE
\* per chunk (each at most the block size, together the file size), one
\* WRITE FILEMARKS(1); and it is Completed only if that filemark succeeded.
C5_CommandSequence ==
    \A k \in Items :
        ~io.queue[k].isDirectory /\ io.queue[k].status = "Completed" =>
            /\ obs.phase[k] = "filemark"
            /\ obs.sent[k] = io.queue[k].size
            /\ obs.fmOk[k]

\* C6: items are started in strictly increasing queue order, and only items
\* that are Pending are started (a non-Pending item is left as it is).
C6_QueueOrder ==
    /\ \A m, n \in 1..Len(obs.startLog) :
          m < n => obs.startLog[m] < obs.startLog[n]
    /\ ~obs.startedNonPending

\* C7: with continueOnError = false no item is started after the first
\* failure, so later items stay Pending; with continueOnError = true and no
\* cancel every item is attempted exactly once.
C7_ContinueOnError ==
    /\ ~obs.lateStart
    /\ ~io.options.continueOnError /\ RunOver =>
          \A k1, k2 \in Items :
              k1 < k2 /\ io.queue[k1].status \in {"Failed", "Cancelled"} =>
                  io.queue[k2].status = "Pending"
    /\ io.options.continueOnError /\ ~io.cancelled =>
          /\ \A k \in Items : Starts(k) <= 1
          /\ RunOver => \A k \in Items : Starts(k) = 1

\* C8: after pause() or cancel() the run issues at most one further WRITE,
\* and while the paused flag is set no other device command is issued.
C8_SignalLatency ==
    /\ obs.sigWrites <= 1
    /\ ~obs.cmdWhilePaused

\* C9: a file whose read observed the cancel is reported with final status
\* Cancelled, and its destination file does not exist when the call returns.
C9_ReadCancelled ==
    \A n \in 1..Len(rd.reported) :
        rd.reported[n].inner = "Cancelled" =>
            /\ rd.reported[n].status = "Cancelled"
            /\ ~rd.reported[n].destExists

\* C10: with verification enabled, a file read back in full whose stored hash
\* differs from the hash of the bytes written to the destination is reported
\* Failed, not verified, with the integrity message, and the destination is
\* kept; after a read failure or a cancel the destination is removed.
C10_HashMismatch ==
    \A n \in 1..Len(rd.reported) :
        LET r == rd.reported[n]
            f == rd.files[r.file]
        IN
        /\ io.options.verifyAfterWrite /\ r.destExists
           /\ r.bytes = f.length
           /\ f.hash # <<>> /\ f.hash # HashOf(r.content) =>
               /\ r.status = "Failed"
               /\ ~r.hashVerified
               /\ r.errorMessage = "Hash verification failed"
        /\ r.inner = "Cancelled"
           \/ r.errorMessage \in {"Read error", "Write error"} =>
               ~r.destExists

\* the read part of C7 on its own: readFiles starts no file after the first
\* failure when continueOnError is false
ReadStopsAtFailure ==
    ~io.options.continueOnError =>
        \A m, n \in 1..Len(rd.reported) :
            m < n => rd.reported[m].status = "Completed"

\* the texts startWrite() leaves in the last error when it returns false
StartRefusals ==
    {"Transfer already in progress", "Device not open", "No files in queue"}

\* C11: a startWrite() that is refused (a run executing, the device not
\* open, the queue empty) changes nothing but the last-error text: flags,
\* statistics, items, device, drive and the run's observation stay as they
\* are; a startWrite() that is accepted sets running and clears paused and
\* cancelled in a step in which no item is started and no command issued.
C11_StartWrite ==
    [][ /\ (io'.lastError # io.lastError /\ io'.lastError \in StartRefusals)
            => /\ io' = [io EXCEPT !.lastError = io'.lastError]
               /\ \/ io.running
                  \/ ~dev.open
                  \/ io.queue = <<>>
               /\ UNCHANGED <<th, dev, drv, rd, obs, bm, xml, scsi>>
        /\ (~io.running /\ io'.running)
            => /\ dev.open /\ io.queue # <<>>
               /\ ~io'.paused /\ ~io'.cancelled
               /\ io'.queue = io.queue
               /\ obs'.startLog = obs.startLog
               /\ UNCHANGED <<dev, drv>>
      ]_vars

\* a start was refused while a run was executing, with a cancel pending
C11_Witness ==
    /\ io.lastError = "Transfer already in progress"
    /\ io.running /\ io.cancelled
    /\ InProgressSet # {}

\* ------------------------------------------- properties of the controller
\* the call of function nm is over
CallOver(nm) == Quiet /\ obs.call.op = nm /\ obs.call.pre.open

\* the status refreshStatus() arrives at when its first TEST UNIT READY is
\* entry k of the call's log (a failed one leaves its sense data behind)
StatusAfterRefresh(k) ==
    RefreshStatusMap([ok |-> obs.call.log[k].ok, sense |-> dev.lastSenseData],
                     Len(obs.call.log) > k /\ obs.call.log[k + 1].ok)

\* the status table of refreshStatus() as stated: success Ready; NotReady
\* with ASC 0x3A NoMedia; NotReady with ASC 0x04, ASCQ 0x01 Loading, any
\* other ASCQ NotReady; DataProtect WriteProtected; every other failure
\* (UnitAttention apart) Error
StatedStatus(ok, sense) ==
    IF ok THEN "Ready"
    ELSE IF sense.senseKey = SK_NotReady /\ sense.asc = 58 THEN "NoMedia"
    ELSE IF sense.senseKey = SK_NotReady /\ sense.asc = 4 THEN
        (IF sense.ascq = 1 THEN "Loading" ELSE "NotReady")
    ELSE IF sense.senseKey = SK_DataProtect THEN "WriteProtected"
    ELSE "Error"

\* C12: after refreshStatus() on an open device the status is the one the
\* stated table gives for the outcome of TEST UNIT READY, for every outcome
\* but UnitAttention; a failure in none of the rows gives Error.
C12_StatusTable ==
    CallOver("refreshStatus")
    /\ ~(~obs.call.log[1].ok
         /\ dev.lastSenseData.senseKey = SK_UnitAttention) =>
        dev.status = StatedStatus(obs.call.log[1].ok, dev.lastSenseData)

\* C13: refreshStatus() issues at most two TEST UNIT READY; when the first
\* fails with UnitAttention it issues exactly one more, and then a success
\* gives Ready and one mediaChanged, a failure NotReady and no mediaChanged;
\* in every other case it issues one and emits no mediaChanged.
C13_UnitAttentionRetry ==
    CallOver("refreshStatus") =>
        /\ Len(obs.call.log) \in 1..2
        /\ \A k \in 1..Len(obs.call.log) : obs.call.log[k].op = "TUR"
        /\ IF ~obs.call.log[1].ok
              /\ dev.lastSenseData.senseKey = SK_UnitAttention
           THEN /\ Len(obs.call.log) = 2
                /\ obs.call.log[2].ok =>
                       dev.status = "Ready" /\ obs.call.media = 1
                /\ ~obs.call.log[2].ok =>
                       dev.status = "NotReady" /\ obs.call.media = 0
           ELSE Len(obs.call.log) = 1 /\ obs.call.media = 0

\* a UnitAttention and a second TEST UNIT READY that failed
C13_Witness ==
    /\ CallOver("refreshStatus")
    /\ Len(obs.call.log) = 2 /\ ~obs.call.log[2].ok
    /\ dev.status = "NotReady"

\* the operations of the controller that are one command
Commands ==
    {"rewind", "load", "unload", "locate", "spaceBlocks", "spaceFilemarks",
     "spaceToEndOfData", "readBlock", "writeBlock", "writeFilemark"}

\* C14: when the command of a controller operation fails at the device, the
\* controller issues TEST UNIT READY (refreshStatus) before it returns, the
\* status on return is what refreshStatus maps the answer to, and the
\* failed command is not issued again.
C14_RefreshOnFailure ==
    CallOver(obs.call.op) /\ obs.call.op \in Commands
    /\ ~obs.call.log[1].ok =>
        /\ Len(obs.call.log) >= 2
        /\ \A k \in 2..Len(obs.call.log) : obs.call.log[k].op = "TUR"
        /\ dev.status = StatusAfterRefresh(2)

\* C15: locate(p, b) issues LOCATE(16) to (p, b) with the status Locating;
\* on success it returns true with position.partition = p, blockNumber = b,
\* the rest of the position as before, status Ready; on failure it returns
\* false, the position is as before, refreshStatus has run and its result
\* is the status.
C15_Locate ==
    CallOver("locate") =>
        /\ [op |-> obs.call.log[1].op, a |-> obs.call.log[1].a,
            b |-> obs.call.log[1].b, st |-> obs.call.log[1].st]
           = [op |-> "LOCATE", a |-> obs.call.a, b |-> obs.call.b,
              st |-> "Locating"]
        /\ IF obs.call.log[1].ok
           THEN /\ obs.call.ret = 1
                /\ dev.position =
                      [obs.call.pre.position EXCEPT
                          !.partition = obs.call.a,
                          !.blockNumber = obs.call.b]
                /\ dev.status = "Ready"
                /\ Len(obs.call.log) = 1
           ELSE /\ obs.call.ret = 0
                /\ dev.position = obs.call.pre.position
                /\ Len(obs.call.log) >= 2
                /\ obs.call.log[2].op = "TUR"
                /\ dev.status = StatusAfterRefresh(2)

\* a locate away from a position that failed, the drive then without medium
C15_Witness ==
    /\ CallOver("locate") /\ ~obs.call.log[1].ok
    /\ obs.call.pre.position.blockNumber > 0
    /\ obs.call.b # obs.call.pre.position.blockNumber
    /\ dev.status = "NoMedia"

\* C16: writeBlock(data) issues WRITE(6) with the status Writing; on
\* success position.blockNumber is one more, the rest of the position as
\* before, status Ready; on failure it returns -1, the position is as
\* before, the status has been read again (refreshStatus) and the last
\* error is not empty.
C16_WriteBlock ==
    CallOver("writeBlock") =>
        /\ obs.call.log[1].op = "WRITE" /\ obs.call.log[1].st = "Writing"
        /\ IF obs.call.log[1].ok
           THEN /\ obs.call.ret >= 0
                /\ dev.position =
                      [obs.call.pre.position EXCEPT !.blockNumber = @ + 1]
                /\ dev.status = "Ready"
                /\ Len(obs.call.log) = 1
           ELSE /\ obs.call.ret = -1
                /\ dev.position = obs.call.pre.position
                /\ Len(obs.call.log) >= 2
                /\ obs.call.log[2].op = "TUR"
                /\ dev.status = StatusAfterRefresh(2)
                /\ dev.lastError # ""

\* a second block whose write failed
C16_Witness ==
    /\ CallOver("writeBlock") /\ ~obs.call.log[1].ok
    /\ obs.call.pre.position.blockNumber > 0
    /\ obs.call.pre.lastError = ""

ZeroByteRead ==
    /\ obs.call.log # <<>>
    /\ obs.call.log[Len(obs.call.log)].op = "READ"
    /\ ~obs.call.log[Len(obs.call.log)].ok
    /\ dev.lastSenseData.senseKey = SK_BlankCheck

\* C18: readLabel takes a 0-byte result of readBlock for the end of the
\* data and not for an error: no error message is set, the controller does
\* not go to Error, no errorOccurred is emitted.
C18_ZeroByteNoError ==
    CallOver("readLabel") /\ ZeroByteRead =>
        /\ dev.lastError = obs.call.pre.lastError
        /\ dev.status # "Error"
        /\ obs.call.errs = 0

\* the commands of the call other than the TEST UNIT READY of refreshStatus
Issued == SelectSeq(obs.call.log, LAMBDA e : e.op # "TUR")

IsPrefix(q, r) == Len(q) <= Len(r) /\ q = SubSeq(r, 1, Len(q))

RECURSIVE CmdsOf(_)
CmdsOf(q) ==
    IF q = <<>> THEN <<>>
    ELSE <<Cmd(Head(q).op, Head(q).a, Head(q).b)>> \o CmdsOf(Tail(q))

\* the commands whose failure the function overlooks
Overlooked == {"ALLOW", "FORMAT"}

\* the call stopped at the first failed command that is not overlooked, and
\* returned true exactly when it issued all of the commands in cmds
StopsAtFailure(cmds) ==
    /\ IsPrefix(CmdsOf(Issued), cmds)
    /\ \A k \in 1..Len(Issued) :
          ~Issued[k].ok /\ Issued[k].op \notin Overlooked =>
              k = Len(Issued) /\ obs.call.ret = 0
    /\ Len(Issued) < Len(cmds) =>
          ~Issued[Len(Issued)].ok /\ Issued[Len(Issued)].op \notin Overlooked
    /\ obs.call.ret = 1 <=>
          /\ Len(Issued) = Len(cmds)
          /\ \A k \in 1..Len(Issued) :
                Issued[k].ok \/ Issued[k].op \in Overlooked

\* the commands of a label write to partition p, as stated
LabelCommands(p) ==
    << Cmd("LOCATE", p, 0), Cmd("ALLOW", 1, 0), Cmd("WRITE", AnsiLabelLen, 0),
       Cmd("WRITE", LtfsLabelLen, 0), Cmd("WFM", 1, 0) >>

\* C19: writeLabel(label, p) issues LOCATE to (p, 0), ALLOW OVERWRITE, WRITE
\* of the 80-byte ANSI label, WRITE of the LTFS label, WRITE FILEMARKS(1) in
\* this order; a failed ALLOW OVERWRITE neither stops it nor changes the
\* result; a failed locate, write or filemark is the last command of the
\* sequence and the result is false.
C19_WriteLabel ==
    CallOver("writeLabel") => StopsAtFailure(LabelCommands(obs.call.a))

\* a label written although ALLOW OVERWRITE failed
C19_Witness ==
    /\ CallOver("writeLabel") /\ obs.call.ret = 1
    /\ \E k \in 1..Len(Issued) : Issued[k].op = "ALLOW" /\ ~Issued[k].ok

\* the commands of formatForLtfs, as stated
FormatCommands ==
    << Cmd("REWIND", 0, 0), Cmd("FORMAT", 14, 1) >>
    \o LabelCommands(IndexPartition) \o LabelCommands(DataPartition)
    \o << Cmd("LOCATE", IndexPartition, 0), Cmd("SPACE", 1, 1),
          Cmd("WRITE", IndexLen, 0), Cmd("WFM", 2, 0), Cmd("REWIND", 0, 0) >>

StatedValid(s) ==
    /\ 4096 <= s /\ s <= 4194304
    /\ (\E k \in 0..30 : s = 2 ^ k) \/ s % 4096 = 0

\* C27: setBlockSize(s) returns true and makes s the block size exactly when
\* s is a valid size as stated; otherwise it returns false and the tracker is
\* as before; the block size of the tracker is a valid size in every state,
\* whatever size the constructor was given.
C27_SetBlockSize ==
    /\ StatedValid(bm.blockSize)
    /\ bm.last.op = "setBlockSize" =>
          IF StatedValid(bm.last.a)
          THEN /\ bm.last.ret = 1
               /\ Tracker(bm) = [bm.last.pre EXCEPT !.blockSize = bm.last.a]
          ELSE /\ bm.last.ret = 0
               /\ Tracker(bm) = bm.last.pre

\* a size above the limit refused by a tracker that was constructed with an
\* invalid size and fell back to the default
C27_Witness ==
    /\ bm.last.op = "setBlockSize" /\ bm.last.a = 2 * MAX_BLOCK_SIZE
    /\ bm.calls = 1
    /\ bm.blockSize = DEFAULT_BLOCK_SIZE

\* the list after the extent that was active when the call was made has been
\* appended to it
Closed(pre) ==
    IF pre.extentActive THEN Append(pre.extents, pre.currentExtent)
    ELSE pre.extents

\* C28: calls from one thread.  beginExtent, once it has returned, has
\* appended the extent that was active, with its counts, and the active
\* extent is a new one at the current block and partition; endExtent appends
\* the active extent once and leaves none active, and appends nothing when
\* none was active; addToExtent adds to the counts of the active extent; no
\* call but clearExtents changes an extent that is in the list.
C28_ExtentSequence ==
    LET pre == bm.last.pre IN
    /\ bm.last.op = "beginExtent" /\ bm.pc["w"] = "idle" =>
          /\ bm.extents = Closed(pre)
          /\ bm.extentActive
          /\ bm.currentExtent =
                [BlockAllocation EXCEPT !.startBlock = pre.currentBlock,
                                        !.partition = pre.currentPartition]
    /\ bm.last.op = "endExtent" =>
          bm.extents = Closed(pre) /\ ~bm.extentActive
    /\ bm.last.op = "addToExtent" =>
          /\ bm.extents = pre.extents
          /\ bm.extentActive = pre.extentActive
          /\ bm.currentExtent =
                IF pre.extentActive
                THEN [pre.currentExtent EXCEPT
                         !.blockCount = @ + bm.last.a,
                         !.byteCount = @ + bm.last.a * bm.blockSize]
                ELSE pre.currentExtent
    /\ bm.last.op = "clearExtents" => bm.extents = <<>> /\ ~bm.extentActive
    /\ bm.last.op \notin {"none", "clearExtents"} =>
          IsPrefix(pre.extents, bm.extents)
    /\ bm.last.op \in {"setBlockSize", "setPartition", "advanceBlocks"} =>
          bm.extents = pre.extents /\ bm.currentExtent = pre.currentExtent

\* a beginExtent that closed an extent with blocks in it, behind another one
C28_Witness ==
    /\ bm.last.op = "beginExtent" /\ bm.pc["w"] = "idle"
    /\ bm.last.pre.extentActive
    /\ bm.last.pre.currentExtent.blockCount > 0
    /\ Len(bm.extents) = 2

RECURSIVE BlocksIn(_)
BlocksIn(q) ==
    IF q = <<>> THEN 0 ELSE Head(q).blockCount + BlocksIn(Tail(q))

\* C29: calls from two threads.  The blocks handed to addToExtent after a
\* beginExtent has returned, with no endExtent called since, are all in the
\* extents of the list or in the active one once the calls are over: none
\* are dropped between the implicit close of beginExtent and its new
\* extent, and no extent that was begun is lost.
C29_ExtentAtomic ==
    (\A t \in Threads : bm.pc[t] = "idle") =>
        bm.offered = BlocksIn(bm.extents)
                     + (IF bm.extentActive THEN bm.currentExtent.blockCount
                        ELSE 0)

\* ------------------------------ properties of the controller's life cycle
\* the functions that were called on a device that is not open
CalledClosed ==
    Quiet /\ obs.call.op \notin {"none", "open", "close"} /\ ~obs.call.pre.open

\* C22: a function of the controller called while the device is not open
\* returns its failure value, issues no command, emits no event, leaves the
\* status and the position as they are and leaves a last-error message that
\* names the function.
C22_NotOpen ==
    CalledClosed =>
        /\ obs.call.ret = (IF obs.call.op \in {"readBlock", "writeBlock"}
                           THEN -1 ELSE 0)
        /\ obs.call.log = <<>>
        /\ obs.call.sig = <<>> /\ obs.call.errs = 0 /\ obs.call.media = 0
        /\ dev.status = obs.call.pre.status
        /\ dev.position = obs.call.pre.position
        /\ dev.lastError = "Device not open for operation: " \o obs.call.op

\* the functions that report a failure by their result
Failing ==
    Commands \cup SequenceFunctions \cup {"seekToBeginning"}

\* the call on the open device is over and has returned a failure
CallFailed ==
    /\ CallOver(obs.call.op) /\ obs.call.op \in Failing
    /\ obs.call.ret = (IF obs.call.op \in {"readBlock", "writeBlock"}
                       THEN -1 ELSE 0)

\* the places in the log of the commands that failed, the status polls and
\* the commands whose failure is overlooked apart
FailedAt ==
    {k \in 1..Len(obs.call.log) :
        /\ ~obs.call.log[k].ok
        /\ obs.call.log[k].op \notin Overlooked \cup {"TUR"}}

\* C23: after a failure outcome on an open device the last error is not
\* empty and the last sense data is that of the command whose failure led to
\* the outcome, not that of a later TEST UNIT READY.
C23_LastSense ==
    CallFailed =>
        /\ dev.lastError # ""
        /\ FailedAt # {}
        /\ dev.lastSenseData = obs.call.cause

\* C24: the status after a call is the value of the last statusChanged of
\* the call (the status before the call when there was none), and every
\* statusChanged carries a value other than the status before it.
C24_StatusEvents ==
    obs.call.op # "none" =>
        LET chain == <<obs.call.pre.status>> \o obs.call.sig IN
        /\ dev.status = chain[Len(chain)]
        /\ \A k \in 1..Len(obs.call.sig) : chain[k] # chain[k + 1]

\* the status each operation sets before it issues its command
Transient ==
    [rewind |-> "Rewinding", load |-> "Loading", unload |-> "Unloading",
     locate |-> "Locating", writeBlock |-> "Writing"]

\* C25: when rewind, load, unload, locate or writeBlock has returned, with
\* either value of the wait flag, the status is not the one the operation
\* set before its command, unless its refreshStatus() arrived at it.
C25_TransientCorrected ==
    CallOver(obs.call.op) /\ obs.call.op \in DOMAIN Transient =>
        \/ dev.status # Transient[obs.call.op]
        \/ /\ Len(obs.call.log) >= 2
           /\ obs.call.log[2].op = "TUR"
           /\ StatusAfterRefresh(2) = Transient[obs.call.op]

\* C26: while the device is not open the status is Unknown (after
\* construction, after a failed open, after a call on the closed device,
\* after close), and the status leaves Unknown only in open().
C26_ClosedUnknown ==
    /\ [](~dev.open => dev.status = "Unknown")
    /\ [][dev.status = "Unknown" /\ dev'.status # "Unknown" =>
             ~dev.open /\ dev'.open /\ obs'.call.op = "open"]_vars

\* closed again after an operation had failed on the open device
C26_Witness ==
    /\ obs.call.op = "close" /\ obs.call.pre.open
    /\ obs.call.pre.status = "Error"
    /\ ~dev.open /\ dev.status = "Unknown"

\* --------------------------------------- properties of the index codec
\* C30: for every index tried (files with extents and extended attributes,
\* any uid, any partition and start block in the self location and in the
\* previous-generation location, valid times with milliseconds) the index
\* parsed from the written document equals the original field for field,
\* the order of files, subdirectories, extents and attributes included
C30_RoundTrip ==
    xml.stage = "parsed" => xml.out = xml.index

\* C21: when formatForLtfs has returned true on a medium that was blank in
\* both partitions, the index partition holds the ANSI label, the LTFS
\* label, one filemark, the index document and two filemarks, the data
\* partition holds the two labels and one filemark, and the index document
\* parsed by IndexParser has generation number 1, a root directory without
\* files and subdirectories and a creator that contains the product name
C21_FormatResult ==
    CallOver("formatForLtfs") /\ obs.call.ret = 1 /\ obs.call.blank =>
        /\ drv.tape[IndexPartition] =
               <<AnsiLabelLen, LtfsLabelLen, Filemark, IndexLen,
                 Filemark, Filemark>>
        /\ drv.tape[DataPartition] = <<AnsiLabelLen, LtfsLabelLen, Filemark>>
        /\ \A p \in 0..1 :
               LET index == parse(InitialIndexDocument, p) IN
               /\ index.generationNumber = 1
               /\ index.rootDirectory.files = <<>>
               /\ index.rootDirectory.subdirectories = <<>>
               /\ \E k \in 1..Len(index.creator) :
                      index.creator[k] = ProductName

C21_Witness ==
    /\ CallOver("formatForLtfs") /\ obs.call.ret = 1 /\ obs.call.blank
    /\ Len(drv.tape[IndexPartition]) = 6
    /\ parse(InitialIndexDocument, DataPartition).rootDirectory.name = <<"/">>

\* ------------------------------------- properties of the sense data parser
\* the response code of a response of at least 8 bytes
Fixed == Len(scsi.data) >= 8 /\ scsi.data[1] % 128 \in {112, 113}

Descriptor == Len(scsi.data) >= 8 /\ scsi.data[1] % 128 \in {114, 115}

DescriptorParsed ==
    Descriptor =>
        /\ scsi.sense.valid
        /\ scsi.sense.senseKey = scsi.data[2] % 16
        /\ scsi.sense.additionalSenseCode = scsi.data[3]
        /\ scsi.sense.additionalSenseCodeQualifier = scsi.data[4]

\* C31 as stated: of a response of at least 8 bytes, with response code 0x70
\* or 0x71 the sense data is valid with the key the low nibble of byte 2, the
\* ASC byte 12 and the ASCQ byte 13; with response code 0x72 or 0x73 it is
\* valid with the key the low nibble of byte 1, ASC byte 2, ASCQ byte 3;
\* every shorter input and every other response code gives sense data that
\* is not valid
C31_ParseSense ==
    scsi.stage = "parsed" =>
        /\ Fixed =>
              /\ scsi.sense.valid
              /\ scsi.sense.senseKey = scsi.data[3] % 16
              /\ Len(scsi.data) >= 14
              /\ scsi.sense.additionalSenseCode = scsi.data[13]
              /\ scsi.sense.additionalSenseCodeQualifier = scsi.data[14]
        /\ DescriptorParsed
        /\ ~Fixed /\ ~Descriptor => ~scsi.sense.valid

\* C31 amended: in the fixed format the ASC is byte 12 when the response has
\* at least 13 bytes and its additional length (byte 7) is at least 6, the
\* ASCQ is byte 13 when there is a byte 13 besides, and both are 0 when the
\* response is shorter than 13 bytes or the additional length is below 6;
\* the rest as stated
C31_ParseSenseAmended ==
    scsi.stage = "parsed" =>
        /\ Fixed =>
              /\ scsi.sense.valid
              /\ scsi.sense.senseKey = scsi.data[3] % 16
              /\ IF Len(scsi.data) >= 13 /\ scsi.data[8] >= 6
                 THEN /\ scsi.sense.additionalSenseCode = scsi.data[13]
                      /\ Len(scsi.data) >= 14 =>
                            scsi.sense.additionalSenseCodeQualifier
                                = scsi.data[14]
                 ELSE /\ scsi.sense.additionalSenseCode = 0
                      /\ scsi.sense.additionalSenseCodeQualifier = 0
        /\ DescriptorParsed
        /\ ~Fixed /\ ~Descriptor => ~scsi.sense.valid

C31_Witness ==
    /\ scsi.stage = "parsed" /\ Fixed
    /\ Len(scsi.data) >= 14 /\ scsi.data[8] < 6 /\ scsi.data[13] # 0
    /\ scsi.sense.additionalSenseCode = 0

\* C40: parsing reads no byte at an index at or behind the length of its
\* input
C40_ReadsInBounds ==
    scsi.stage = "parsed" => \A i \in scsi.reads : i < Len(scsi.data)

\* ------------------------------------- properties of the command blocks
\* C32: a built command block has the length of its command, its opcode in
\* byte 0, and its big-endian fields read back give the parameters:
\* partition and block number of LOCATE(16), code and signed count of
\* SPACE, count of WRITE FILEMARKS, transfer length of READ(6) and WRITE(6)
C32_RoundTrip ==
    LET cdb == scsi.cmd.cdb
        call == scsi.call
    IN scsi.stage = "execute" =>
        /\ call.op = "locate16" =>
              /\ Len(cdb) = 16 /\ cdb[1] = 146
              /\ cdb[4] = call.partition
              /\ BlockNumber(cdb) = call.blockNumber
        /\ call.op = "space" =>
              /\ Len(cdb) = 6 /\ cdb[1] = 17
              /\ cdb[2] = call.code /\ SignedCount(cdb) = call.count
        /\ call.op = "writeFilemark" =>
              /\ Len(cdb) = 6 /\ cdb[1] = 16
              /\ TransferLength(cdb) = call.count
        /\ call.op = "read6" =>
              /\ Len(cdb) = 6 /\ cdb[1] = 8
              /\ TransferLength(cdb) = call.count
        /\ call.op = "write6" =>
              /\ Len(cdb) = 6 /\ cdb[1] = 10
              /\ TransferLength(cdb) = call.count

\* C33: a command block of more than 16 bytes given to executeRaw or to
\* LinuxScsi::executeCommand ends in a failure and nothing is handed to the
\* driver or reaches the device
C33_OversizedRejected ==
    /\ scsi.stage = "done"
    /\ scsi.call.op \in {"executeRaw", "executeCommand"}
    /\ scsi.call.length > 16
    => /\ ~scsi.result.success
       /\ scsi.ioctls = <<>> /\ scsi.device = <<>>

RECURSIVE SumOf(_)
SumOf(q) == IF q = <<>> THEN 0 ELSE Head(q) + SumOf(Tail(q))

\* C35: a file read from tape is reported Completed only if the bytes read
\* and written to the destination are as many as the expected length of the
\* file; a 0-byte read before that never gives Completed
C35_CompletedInFull ==
    \A n \in 1..Len(rd.reported) :
        rd.reported[n].status = "Completed" =>
            /\ rd.reported[n].bytes = rd.files[rd.reported[n].file].length
            /\ SumOf(rd.reported[n].content)
                   = rd.files[rd.reported[n].file].length

\* C36: a cancel() called while no transfer runs has no effect on a transfer
\* started afterwards: no file of a later readFiles() is cancelled, and no
\* destination file is truncated or removed, because of it
C36_CancelWhileIdle ==
    rd.cancelledBefore =>
        \A n \in 1..Len(rd.reported) :
            /\ rd.reported[n].inner # "Cancelled"
            /\ rd.reported[n].errorMessage = "" => rd.reported[n].destExists

\* -------------------------------------------- properties of write runs
\* C37: whenever the running flag is false no item of the queue is
\* InProgress, under every interleaving of pause(), resume() and cancel()
\* with the run
C37_NoneInProgress ==
    ~io.running => \A k \in 1..Len(io.queue) : io.queue[k].status # "InProgress"

\* the items of the queue with status st
WithStatus(st) == {k \in 1..Len(io.queue) : io.queue[k].status = st}

\* C39: at the end of a write run (here the first, so that every item that
\* left Pending did so in this run) completedFiles is the number of items
\* that became Completed and failedFiles the number that became Failed; a
\* Cancelled item is counted in neither, and completedFiles + failedFiles
\* is at most totalFiles
C39_FileCounts ==
    obs.runs = 1 /\ ~io.running /\ th["w"].pc = "idle" =>
        /\ io.stats.completedFiles = Cardinality(WithStatus("Completed"))
        /\ io.stats.failedFiles = Cardinality(WithStatus("Failed"))
        /\ io.stats.completedFiles + io.stats.failedFiles
               <= io.stats.totalFiles

\* C38: every write run terminates: under FairRun, once startWrite() has set
\* the running flag it is eventually cleared, which processQueue does only
\* with transferCompleted emitted
C38_Terminates == io.running ~> ~io.running

C38_Witness ==
    /\ obs.runs = 1 /\ obs.pauses = 1 /\ ~io.running
    /\ \A t \in Threads : th[t].pc = "idle"
    /\ WithStatus("Completed") # {}

====
